---- MODULE Spec2Model ----
(***************************************************************************)
(* Content-generation pipeline of the vocabulary backend: the LLM client   *)
(* (app/services/llm_service.py), the three orchestrators                  *)
(* (word_enhancement_service.py, sentence_generator.py,                    *)
(* story_generator.py) and the endpoints that write their results          *)
(* (app/api/endpoints/vocabulary.py, bedtime_stories.py).                  *)
(*                                                                         *)
(* Text is a sequence of tokens; space and newline are whitespace.         *)
(* A JSON field is a record [t, v]: absent, null or a string.              *)
(***************************************************************************)
EXTENDS Integers, Sequences, FiniteSets, TLC

VARIABLES llm, enh, sg, st, rp, svc, race, anth

vars == <<llm, enh, sg, st, rp, svc, race, anth>>

(***************************************************************************)
(* Bounds                                                                  *)
(***************************************************************************)
MaxTextLen == 2

(***************************************************************************)
(* Values                                                                  *)
(***************************************************************************)
Absent == [t |-> "absent", v |-> <<>>]
Null == [t |-> "null", v |-> <<>>]
Str(s) == [t |-> "str", v |-> s]

TextsOver(chars) == UNION {[1..n -> chars] : n \in 0..MaxTextLen}
JVals(chars) == {Absent, Null} \cup {Str(s) : s \in TextsOver(chars)}

Whitespace == {" ", "\n"}

RECURSIVE lstrip(_)
lstrip(s) == IF s = <<>> THEN s
             ELSE IF Head(s) \in Whitespace THEN lstrip(Tail(s)) ELSE s

RECURSIVE rstrip(_)
rstrip(s) == IF s = <<>> THEN s
             ELSE IF s[Len(s)] \in Whitespace THEN rstrip(SubSeq(s, 1, Len(s) - 1)) ELSE s

strip(s) == rstrip(lstrip(s))

\* Python: not generated_text or len(generated_text.strip()) == 0
IsBlank(jv) == jv.t = "null" \/ (jv.t = "str" /\ strip(jv.v) = <<>>)

\* Outcome of a call: a returned text, the implicit None, or a raised exception.
Return(v) == [kind |-> "return", value |-> v, exc |-> "none"]
ReturnNone == [kind |-> "return_none", value |-> <<>>, exc |-> "none"]
Raise(e) == [kind |-> "raise", value |-> <<>>, exc |-> e]

(***************************************************************************)
(* LLMService._generate_ollama                                             *)
(***************************************************************************)
ChatResp(err, status, json, message, content, mthinking, thinking) ==
    [err |-> err, status |-> status, json |-> json, message |-> message,
     content |-> content, mthinking |-> mthinking, thinking |-> thinking]

\* What POST /api/chat can answer.
ChatResponses ==
    {ChatResp(e, 200, FALSE, "absent", Absent, Absent, Absent) :
        e \in {"ConnectError", "TimeoutException"}}
    \cup {ChatResp("none", s, FALSE, "absent", Absent, Absent, Absent) :
        s \in {200, 404, 500}}
    \cup {ChatResp("none", 200, TRUE, m, Absent, Absent, th) :
        m \in {"absent", "null"}, th \in JVals({" ", "t"})}
    \cup {ChatResp("none", 200, TRUE, "dict", c, mt, th) :
        c \in JVals({" ", "c"}), mt \in JVals({" ", "m"}), th \in JVals({" ", "t"})}

GenResp(err, status, json, response, thinking) ==
    [err |-> err, status |-> status, json |-> json, response |-> response,
     thinking |-> thinking]

\* What POST /api/generate can answer.
GenResponses ==
    {GenResp(e, 200, FALSE, Absent, Absent) :
        e \in {"ConnectError", "TimeoutException"}}
    \cup {GenResp("none", s, FALSE, Absent, Absent) : s \in {200, 404, 500}}
    \cup {GenResp("none", 200, TRUE, r, th) :
        r \in JVals({" ", "c"}), th \in JVals({" ", "t"})}

\* The text the chat branch settles on (lines 210-221).
chat_generated_text(r) ==
    IF IsBlank(r.content)
    THEN IF r.mthinking.t # "absent" THEN r.mthinking
         ELSE IF r.thinking.t # "absent" THEN r.thinking
         ELSE r.content
    ELSE r.content

\* The try block around /api/chat (lines 198-234).  A status other than 200
\* leaves the block without a return or a raise: the function returns None.
chat_attempt(r) ==
    IF r.err # "none" THEN Raise(r.err)
    ELSE IF r.status # 200 THEN ReturnNone
    ELSE IF ~r.json THEN Raise("JSONDecodeError")
    ELSE IF r.message = "absent" THEN Raise("ValueError")
    ELSE IF r.message = "null" THEN Raise("TypeError")
    ELSE IF r.content.t = "absent" THEN Raise("ValueError")
    ELSE LET gt == chat_generated_text(r) IN
         IF gt.t = "null" THEN Raise("TypeError")
         ELSE IF IsBlank(gt) THEN Raise("ValueError")
         ELSE Return(gt.v)

\* The text the generate branch settles on (lines 280-286).
generate_generated_text(r) ==
    IF IsBlank(r.response) /\ r.thinking.t # "absent" THEN r.thinking
    ELSE r.response

\* The fallback to /api/generate (lines 265-343): every failure leaves as a
\* ValueError; tags tells whether GET /api/tags was issued on the way.
generate_attempt(r) ==
    IF r.err # "none" THEN [res |-> Raise("ValueError"), tags |-> FALSE]
    ELSE IF r.status # 200 THEN [res |-> Raise("ValueError"), tags |-> FALSE]
    ELSE IF ~r.json THEN [res |-> Raise("ValueError"), tags |-> FALSE]
    ELSE IF r.response.t = "absent" THEN [res |-> Raise("ValueError"), tags |-> FALSE]
    ELSE LET gt == generate_generated_text(r) IN
         IF gt.t = "null" THEN [res |-> Raise("ValueError"), tags |-> FALSE]
         ELSE IF IsBlank(gt) THEN [res |-> Raise("ValueError"), tags |-> TRUE]
         ELSE [res |-> Return(gt.v), tags |-> FALSE]

\* Reading msg.role of every message (lines 182-186) works on LLMMessage
\* objects and raises AttributeError on plain dicts.
MessageKinds == {"LLMMessage", "dict"}

\* One whole call of _generate_ollama: its outcome and the endpoints it called.
_generate_ollama(msgKind, c, g) ==
    IF msgKind = "dict" THEN [result |-> Raise("AttributeError"), calls |-> <<>>]
    ELSE LET co == chat_attempt(c) IN
         IF co.kind = "raise"
         THEN LET go == generate_attempt(g) IN
              [result |-> go.res,
               calls |-> <<"chat", "generate">>
                         \o (IF go.tags THEN <<"tags">> ELSE <<>>)]
         ELSE [result |-> co, calls |-> <<"chat">>]

NoResp == ChatResp("unset", 0, FALSE, "absent", Absent, Absent, Absent)
NoGen == GenResp("unset", 0, FALSE, Absent, Absent)

LLMIdle == [pc |-> "idle", msgKind |-> "LLMMessage", calls |-> <<>>,
            chat |-> NoResp, chatOut |-> ReturnNone, gen |-> NoGen,
            result |-> ReturnNone]

\* generate() is entered: the chat payload is built and POSTed.
LLM_Generate ==
    /\ llm.pc = "idle"
    /\ \E k \in MessageKinds :
        llm' = IF k = "dict"
               THEN [LLMIdle EXCEPT !.pc = "done", !.msgKind = k,
                                    !.result = Raise("AttributeError")]
               ELSE [LLMIdle EXCEPT !.pc = "chat", !.msgKind = k,
                                    !.calls = <<"chat">>]
    /\ UNCHANGED <<enh, sg, st, rp, svc, race, anth>>

\* The chat call ends (answer, connection error or timeout).
LLM_ChatReply ==
    /\ llm.pc = "chat"
    /\ \E r \in ChatResponses :
        LET co == chat_attempt(r) IN
        llm' = IF co.kind = "raise"
               THEN [llm EXCEPT !.pc = "fallback", !.chat = r, !.chatOut = co,
                                !.calls = Append(@, "generate")]
               ELSE [llm EXCEPT !.pc = "done", !.chat = r, !.chatOut = co,
                                !.result = co]
    /\ UNCHANGED <<enh, sg, st, rp, svc, race, anth>>

\* The fallback call to /api/generate ends.
LLM_GenerateReply ==
    /\ llm.pc = "fallback"
    /\ \E r \in GenResponses :
        LET go == generate_attempt(r) IN
        llm' = [llm EXCEPT !.pc = "done", !.chat = NoResp, !.gen = r,
                           !.result = go.res,
                           !.calls = IF go.tags THEN Append(@, "tags") ELSE @]
    /\ UNCHANGED <<enh, sg, st, rp, svc, race, anth>>

\* The caller has the outcome; the client is ready for the next call.
LLM_Done ==
    /\ llm.pc = "done"
    /\ llm' = LLMIdle
    /\ UNCHANGED <<enh, sg, st, rp, svc, race, anth>>

(***************************************************************************)
(* Token-level text helpers shared by the orchestrators.  A model output   *)
(* is a sequence of tokens: whitespace (space, newline), a code fence, the *)
(* tag json, JSON punctuation (braces, brackets, comma), prose (p) and     *)
(* body tokens that stand for the member list of one JSON document.        *)
(***************************************************************************)
\* Python str.find from a start index: the first position, 0 when absent.
Find(t, tok, start) ==
    LET hits == {i \in start..Len(t) : t[i] = tok} IN
    IF hits = {} THEN 0 ELSE CHOOSE i \in hits : \A j \in hits : i <= j

\* Python str.rfind: the last position, 0 when absent.
RFind(t, tok) ==
    LET hits == {i \in 1..Len(t) : t[i] = tok} IN
    IF hits = {} THEN 0 ELSE CHOOSE i \in hits : \A j \in hits : j <= i

\* Position of the first the fence followed by json, 0 when absent.
FindFenceJson(t) ==
    LET hits == {i \in 1..(Len(t) - 1) : t[i] = "FENCE" /\ t[i + 1] = "json"} IN
    IF hits = {} THEN 0 ELSE CHOOSE i \in hits : \A j \in hits : i <= j

Contains(s, sub) ==
    \E i \in 1..(Len(s) - Len(sub) + 1) : SubSeq(s, i, i + Len(sub) - 1) = sub

\* str.lower(), word by word.
LowerWord(w) ==
    CASE w = "Word" -> "word"
      [] w = "Learned" -> "learned"
      [] w = "From" -> "from"
      [] w = "A" -> "a"
      [] w = "Cat" -> "cat"
      [] w = "Dog" -> "dog"
      [] OTHER -> w

lower(s) == [i \in 1..Len(s) |-> LowerWord(s[i])]

\* Python truthiness of an optional string: None and "" are falsy.
Falsy(jv) == jv.t # "str" \/ jv.v = <<>>

NoWhitespace(t) == SelectSeq(t, LAMBDA x : x \notin Whitespace)

\* Q_open is the start of a member list up to the inside of a string that is
\* still open, Q_close the end of that string with its quote: what stands
\* between the two is the text of the string.
Structural == {"{", "}", "[", "]", ",", "p", "FENCE", "json", "Q_open", "Q_close"}

\* An object whose member list holds a string with any text in it.
IsQuotedObject(s) ==
    /\ Len(s) >= 4
    /\ s[1] = "{" /\ s[2] = "Q_open" /\ s[Len(s) - 1] = "Q_close" /\ s[Len(s)] = "}"
    /\ \A i \in 3..(Len(s) - 2) : s[i] \notin {"Q_open", "Q_close"}

json_loads_tokens(s) ==
    IF Len(s) = 3 /\ s[1] = "{" /\ s[3] = "}" /\ s[2] \notin Structural
    THEN [ok |-> TRUE, top |-> "object", body |-> s[2]]
    ELSE IF Len(s) = 2 /\ s[1] = "{" /\ s[2] = "}"
    THEN [ok |-> TRUE, top |-> "object", body |-> "empty"]
    ELSE IF Len(s) = 3 /\ s[1] = "[" /\ s[3] = "]" /\ s[2] \notin Structural
    THEN [ok |-> TRUE, top |-> "array", body |-> s[2]]
    ELSE IF Len(s) = 5 /\ s[1] = "[" /\ s[2] = "{" /\ s[4] = "}" /\ s[5] = "]"
            /\ s[3] \notin Structural
    THEN [ok |-> TRUE, top |-> "array", body |-> s[3]]
    ELSE IF IsQuotedObject(s)
    THEN [ok |-> TRUE, top |-> "object", body |-> "Q_doc"]
    ELSE [ok |-> FALSE, top |-> "none", body |-> "none"]

\* json.loads on a token text: an object or an array around one body token
\* (or around nothing), an array around one object, and an object with a
\* string of any text parse; everything else is a JSONDecodeError.
json_loads(t) == json_loads_tokens(NoWhitespace(t))

(***************************************************************************)
(* WordEnhancementService (word_enhancement_service.py)                    *)
(***************************************************************************)
DefaultMaxRetries == 3

Content(we, wc, jy, de, dc, ee, ec, di) ==
    [word_english |-> we, word_cantonese |-> wc, jyutping |-> jy,
     definition_english |-> de, definition_cantonese |-> dc,
     example_english |-> ee, example_cantonese |-> ec, difficulty |-> di]

NoContent == Content(<<>>, <<>>, <<>>, <<>>, <<>>, <<>>, <<>>, <<>>)

\* The deterministic placeholder (lines 234-246).
_create_fallback_content(word) ==
    Content(word, word, <<>>,
            <<"A", "word", "learned", "through", "observation">>,
            <<"zh:a-word-learned-through-observation">>,
            <<"I", "learned", "about">> \o lower(word),
            <<"zh:I-learned">> \o word,
            <<"easy">>)

\* _build_enhancement_prompt returns plain dicts, not LLMMessage objects
\* (lines 105-108).
_build_enhancement_prompt == "dict"

\* The member lists a model may answer with, as the fields json.loads yields.
EnhFields(we, wc, jy, de, dc, ee, ec, di) ==
    [word_english |-> we, word_cantonese |-> wc, jyutping |-> jy,
     definition_english |-> de, definition_cantonese |-> dc,
     example_english |-> ee, example_cantonese |-> ec, difficulty |-> di]

EnhBody(b) ==
    CASE b = "E_dog" ->
           EnhFields(Str(<<"Dog">>), Str(<<"zh:dog">>), Str(<<"gau2">>),
                     Str(<<"A", "pet", "that", "barks">>), Str(<<"zh:def-dog">>),
                     Str(<<"I", "see", "a", "dog">>), Str(<<"zh:ex-dog">>),
                     Str(<<"medium">>))
      [] b = "E_nojyutping" ->
           EnhFields(Str(<<"Cat">>), Str(<<"zh:cat">>), Str(<<>>),
                     Str(<<"A", "small", "pet">>), Str(<<"zh:def-cat">>),
                     Str(<<"I", "see", "a", "cat">>), Str(<<"zh:ex-cat">>),
                     Absent)
      [] b = "E_nulldifficulty" ->
           EnhFields(Str(<<"Cat">>), Str(<<"zh:cat">>), Str(<<"maau1">>),
                     Str(<<"A", "small", "pet">>), Str(<<"zh:def-cat">>),
                     Str(<<"I", "see", "a", "cat">>), Str(<<"zh:ex-cat">>),
                     Null)
      [] b = "E_blankdifficulty" ->
           EnhFields(Str(<<"Cat">>), Str(<<"zh:cat">>), Str(<<"maau1">>),
                     Str(<<"A", "small", "pet">>), Str(<<"zh:def-cat">>),
                     Str(<<"I", "see", "a", "cat">>), Str(<<"zh:ex-cat">>),
                     Str(<<>>))
      [] OTHER ->
           EnhFields(Absent, Absent, Absent, Absent, Absent, Absent, Absent, Absent)

RequiredFields == {"word_english", "word_cantonese", "jyutping",
                   "definition_english", "definition_cantonese",
                   "example_english", "example_cantonese"}

\* The text between position start and the next fence, stripped; the text
\* itself when no fence follows (lines 157-160, 162-165).
FenceInterior(t, start) ==
    IF Find(t, "FENCE", start) # 0
    THEN strip(SubSeq(t, start, Find(t, "FENCE", start) - 1))
    ELSE t

\* Method 1 (lines 156-165): the interior of the first fenced block.
enhance_strip_fence(t) ==
    IF FindFenceJson(t) # 0 THEN FenceInterior(t, FindFenceJson(t) + 2)
    ELSE IF Find(t, "FENCE", 1) # 0 THEN FenceInterior(t, Find(t, "FENCE", 1) + 1)
    ELSE t

\* Method 2, first half (lines 168-171): drop what precedes the first brace.
enhance_cut_head(t) ==
    IF t # <<>> /\ t[1] = "{" THEN t
    ELSE IF Find(t, "{", 1) # 0 THEN SubSeq(t, Find(t, "{", 1), Len(t))
    ELSE t

\* Method 2, second half (lines 173-176): drop what follows the last brace.
enhance_cut_tail(t) ==
    IF t # <<>> /\ t[Len(t)] = "}" THEN t
    ELSE IF RFind(t, "}") # 0 THEN SubSeq(t, 1, RFind(t, "}"))
    ELSE t

\* Lines 153-178: fence extraction, then object boundaries, on the raw text.
enhance_extract(response) ==
    strip(enhance_cut_tail(enhance_cut_head(enhance_strip_fence(strip(response)))))

ParseFailed(exc) == [ok |-> FALSE, exc |-> exc, content |-> NoContent]

\* Lines 185-196 on the parsed fields: a required field that is missing or
\* empty is a ValueError, and so is a null difficulty (pydantic); an absent
\* difficulty takes the default.
enhance_validate(d) ==
    IF \E f \in RequiredFields : Falsy(d[f]) THEN ParseFailed("ValueError")
    ELSE IF d.difficulty.t = "null" THEN ParseFailed("ValueError")
    ELSE [ok |-> TRUE, exc |-> "none",
          content |-> Content(d.word_english.v, d.word_cantonese.v, d.jyutping.v,
                              d.definition_english.v, d.definition_cantonese.v,
                              d.example_english.v, d.example_cantonese.v,
                              IF d.difficulty.t = "absent" THEN <<"easy">>
                              ELSE d.difficulty.v)]

enhance_loaded(p) ==
    IF ~p.ok THEN ParseFailed("JSONDecodeError")
    ELSE enhance_validate(IF p.top = "object" THEN EnhBody(p.body) ELSE EnhBody("none"))

\* Lines 153-203 on a response: the returned content or the exception.
enhance_parse(response) == enhance_loaded(json_loads(enhance_extract(response)))

enhance_parsed(p) ==
    IF p.ok THEN [step |-> "return", content |-> p.content]
    ELSE [step |-> "continue", content |-> NoContent]

\* enhance_attempt without the catch-all handler of lines 220-226.
enhance_attempt_no_catch_all(attempt, gen) ==
    IF gen.kind = "raise"
    THEN IF gen.exc = "ValueError" \/ (gen.exc = "JSONDecodeError" /\ attempt # 0)
         THEN [step |-> "continue", content |-> NoContent]
         ELSE [step |-> "escape", content |-> NoContent]
    ELSE IF gen.kind = "return_none"
    THEN [step |-> "escape", content |-> NoContent]
    ELSE enhance_parsed(enhance_parse(gen.value))

\* One pass of the retry loop body (lines 141-226) given what generate() did:
\* "return" with the content, "continue", or "escape" with an exception that
\* leaves enhance_word.
enhance_attempt(attempt, gen) ==
    IF gen.kind = "raise"
    THEN IF gen.exc = "JSONDecodeError" /\ attempt = 0
         THEN [step |-> "escape", content |-> NoContent]
         ELSE [step |-> "continue", content |-> NoContent]
    ELSE IF gen.kind = "return_none"
    THEN [step |-> "continue", content |-> NoContent]
    ELSE enhance_parsed(enhance_parse(gen.value))

(***************************************************************************)
(* What the provider answers to an orchestrator's call: the chat endpoint  *)
(* fails, answers a non-200 status, or carries one of the texts; the       *)
(* generate endpoint fails or carries one of the texts.                    *)
(***************************************************************************)
OrchChat(texts) ==
    {ChatResp("ConnectError", 200, FALSE, "absent", Absent, Absent, Absent),
     ChatResp("none", 500, FALSE, "absent", Absent, Absent, Absent)}
    \cup {ChatResp("none", 200, TRUE, "dict", Str(t), Absent, Absent) : t \in texts}

OrchGen(texts) ==
    {GenResp("ConnectError", 200, FALSE, Absent, Absent)}
    \cup {GenResp("none", 200, TRUE, Str(t), Absent) : t \in texts}

(***************************************************************************)
(* The words table and the enhance endpoints (vocabulary.py)               *)
(***************************************************************************)
Word(w, wc, jy, de, dc, ex, ec, di) ==
    [word |-> w, word_cantonese |-> wc, jyutping |-> jy, definition |-> de,
     definition_cantonese |-> dc, example |-> ex, example_cantonese |-> ec,
     difficulty |-> di]

\* Rows the table can hold: word, definition and example are NOT NULL
\* columns (they may be empty strings), the others are nullable.
WordRows ==
    {Word(w, wc, jy, de, dc, ex, ec, di) :
        w \in {Str(<<>>), Str(<<"Cat">>)},
        wc \in {Null, Str(<<>>), Str(<<"zh:cat">>)},
        jy \in {Null, Str(<<"maau1">>)},
        de \in {Str(<<>>), Str(<<"A", "word", "learned", "from", "camera">>),
                Str(<<"A", "Word", "Learned", "From", "camera">>),
                Str(<<"A", "small", "furry", "animal">>)},
        dc \in {Null, Str(<<"zh:furry-animal">>)},
        ex \in {Str(<<>>), Str(<<"I", "saw", "a", "cat">>)},
        ec \in {Null, Str(<<"zh:I-saw-a-cat">>)},
        di \in {Null, Str(<<"easy">>), Str(<<"hard">>)}}

GenericMarker == <<"word", "learned", "from">>

IsGeneric(definition) ==
    Falsy(definition) \/ Contains(lower(definition.v), GenericMarker)

\* Lines 873-891: a Cantonese field is written only when it is missing.
fill_word_cantonese(word, enhanced) ==
    IF Falsy(word.word_cantonese)
    THEN [word EXCEPT !.word_cantonese = Str(enhanced.word_cantonese)] ELSE word

fill_jyutping(word, enhanced) ==
    IF Falsy(word.jyutping)
    THEN [word EXCEPT !.jyutping = Str(enhanced.jyutping)] ELSE word

fill_definition_cantonese(word, enhanced) ==
    IF Falsy(word.definition_cantonese)
    THEN [word EXCEPT !.definition_cantonese = Str(enhanced.definition_cantonese)]
    ELSE word

fill_example_cantonese(word, enhanced) ==
    IF Falsy(word.example_cantonese)
    THEN [word EXCEPT !.example_cantonese = Str(enhanced.example_cantonese)]
    ELSE word

\* Lines 894-896: a missing or generic definition is replaced, and the
\* example with it.
replace_generic_definition(word, enhanced) ==
    IF IsGeneric(word.definition)
    THEN [word EXCEPT !.definition = Str(enhanced.definition_english),
                      !.example = Str(enhanced.example_english)]
    ELSE word

\* Lines 899-900: a valid generated difficulty is always taken.
update_difficulty(word, enhanced) ==
    IF enhanced.difficulty # <<>>
       /\ enhanced.difficulty \in {<<"easy">>, <<"medium">>, <<"hard">>}
    THEN [word EXCEPT !.difficulty = Str(enhanced.difficulty)] ELSE word

\* Lines 903-913: the identity fields are compared with their snapshots and
\* restored on a mismatch.
restore_identity(word, original_word, original_word_cantonese) ==
    [word EXCEPT
        !.word = IF word.word # original_word THEN original_word ELSE @,
        !.word_cantonese =
            IF ~Falsy(original_word_cantonese)
               /\ word.word_cantonese # original_word_cantonese
            THEN original_word_cantonese ELSE @]

\* A merge that takes every generated field, as the creation path of lines
\* 495-505 does, with no guard and no restore.
apply_enhancement_overwrite(word, original_word, enhanced) ==
    [word EXCEPT !.word = Str(enhanced.word_english),
                 !.word_cantonese = Str(enhanced.word_cantonese),
                 !.jyutping = Str(enhanced.jyutping),
                 !.definition = Str(enhanced.definition_english),
                 !.definition_cantonese = Str(enhanced.definition_cantonese),
                 !.example = Str(enhanced.example_english),
                 !.example_cantonese = Str(enhanced.example_cantonese),
                 !.difficulty = Str(enhanced.difficulty)]

\* Lines 869-913 (and 1033-1080 of the batch): the word after the generated
\* content has been merged into it.
apply_enhancement(word, original_word, enhanced) ==
    restore_identity(
        update_difficulty(
            replace_generic_definition(
                fill_example_cantonese(
                    fill_definition_cantonese(
                        fill_jyutping(
                            fill_word_cantonese(word, enhanced),
                            enhanced),
                        enhanced),
                    enhanced),
                enhanced),
            enhanced),
        original_word, word.word_cantonese)

EnhOutputs ==
    {<<"FENCE", "json", "\n", "{", "E_dog", "}", "\n", "FENCE">>,
     <<"p", " ", "{", "E_nojyutping", "}", " ", "p">>,
     <<"{", "E_blankdifficulty", "}">>,
     <<"p">>}

EnhIdle(row) ==
    [pc |-> "idle", op |-> "none", db |-> row, word |-> row, pre |-> row,
     maxRetries |-> 0, attempt |-> 0, calls |-> 0, allRaised |-> TRUE,
     transport |-> 0, firstAnswer |-> Absent,
     escaped |-> FALSE, source |-> "none", result |-> NoContent, outcome |-> "none"]

\* enhance_word has ended with `content` from `source`; the endpoints merge it
\* into the loaded word before they reach the commit.
EnhReturned(e, source, content) ==
    [e EXCEPT !.source = source, !.result = content,
              !.word = IF e.op = "direct" THEN e.word
                       ELSE apply_enhancement(e.word, e.pre.word, content),
              !.outcome = IF e.op = "direct" THEN "returned" ELSE "none",
              !.pc = IF e.op = "direct" THEN "done" ELSE "commit"]

\* An exception left enhance_word: the endpoint answers 500 (single), counts a
\* failed word and goes on to its commit (batch), or the caller sees it.
EnhEscaped(e) ==
    [e EXCEPT !.source = "none", !.escaped = TRUE,
              !.outcome = IF e.op = "single" THEN "http500"
                          ELSE IF e.op = "batch" THEN "failed" ELSE "raised",
              !.pc = IF e.op = "batch" THEN "commit" ELSE "done"]

\* The loop is entered with max_retries: with no attempt to make it falls
\* through to the placeholder at once (lines 137, 228-232).
EnhStart(e) ==
    IF e.maxRetries <= 0
    THEN EnhReturned(e, "fallback", _create_fallback_content(e.pre.word.v))
    ELSE [e EXCEPT !.pc = "gen"]

\* POST /{word_id}/enhance: the word is looked up (404 when it is missing)
\* and enhance_word is called with the default max_retries.
EnhanceWordContent ==
    /\ enh.pc = "idle"
    /\ \E found \in BOOLEAN :
        enh' = IF ~found
               THEN [EnhIdle(enh.db) EXCEPT !.pc = "done", !.op = "single",
                                            !.outcome = "http404"]
               ELSE EnhStart([EnhIdle(enh.db) EXCEPT
                                 !.op = "single", !.maxRetries = DefaultMaxRetries])
    /\ UNCHANGED <<llm, sg, st, rp, svc, race, anth>>

\* POST /batch-enhance: the query selects the word or not (only_missing).
BatchEnhanceWords ==
    /\ enh.pc = "idle"
    /\ \E only_missing \in BOOLEAN :
        enh' = IF only_missing /\ ~(enh.db.word_cantonese \in {Null, Str(<<>>)})
               THEN [EnhIdle(enh.db) EXCEPT !.pc = "done", !.op = "batch",
                                            !.outcome = "no_words"]
               ELSE EnhStart([EnhIdle(enh.db) EXCEPT
                                 !.op = "batch", !.maxRetries = DefaultMaxRetries])
    /\ UNCHANGED <<llm, sg, st, rp, svc, race, anth>>

\* enhance_word called on its own, with any max_retries.
EnhanceWordDirect ==
    /\ enh.pc = "idle"
    /\ \E n \in 0..DefaultMaxRetries :
        enh' = EnhStart([EnhIdle(enh.db) EXCEPT !.op = "direct", !.maxRetries = n])
    /\ UNCHANGED <<llm, sg, st, rp, svc, race, anth>>

\* The HTTP requests one call of generate() sends.
TransportCalls(msgKind, c, g) == Len(_generate_ollama(msgKind, c, g).calls)

\* What the provider has ready for the chat request of an attempt: the
\* content of its message, absent when it has no text to give.
ProviderAnswer(c) ==
    IF chat_attempt(c).kind = "return" THEN Str(chat_attempt(c).value) ELSE Absent

\* One attempt of the retry loop: generate() is awaited and its outcome
\* handled; the last failed attempt runs on into the placeholder.
EnhanceAttempt ==
    /\ enh.pc = "gen"
    /\ \E c \in OrchChat(EnhOutputs), g \in OrchGen(EnhOutputs) :
        LET gen == _generate_ollama(_build_enhancement_prompt, c, g).result
            a == enhance_attempt(enh.attempt, gen)
            e == [enh EXCEPT !.calls = @ + 1,
                             !.allRaised = @ /\ gen.kind = "raise",
                             !.transport = @ + TransportCalls(_build_enhancement_prompt, c, g),
                             !.firstAnswer = IF enh.attempt = 0 THEN ProviderAnswer(c) ELSE @]
        IN enh' = IF a.step = "return" THEN EnhReturned(e, "model", a.content)
                  ELSE IF a.step = "escape" THEN EnhEscaped(e)
                  ELSE IF enh.attempt + 1 >= enh.maxRetries
                  THEN EnhReturned([e EXCEPT !.attempt = @ + 1], "fallback",
                                   _create_fallback_content(enh.pre.word.v))
                  ELSE [e EXCEPT !.attempt = @ + 1]
    /\ UNCHANGED <<llm, sg, st, rp, svc, race, anth>>

\* await db.commit(): the merged word reaches the table, or the commit fails
\* and the table keeps the row.
EnhanceCommit ==
    /\ enh.pc = "commit"
    /\ \E ok \in BOOLEAN :
        enh' = IF ok
               THEN [enh EXCEPT !.pc = "done", !.db = enh.word,
                                !.outcome = IF @ = "none" THEN "ok" ELSE @]
               ELSE [enh EXCEPT !.pc = "done", !.word = enh.db,
                                !.outcome = "http500"]
    /\ UNCHANGED <<llm, sg, st, rp, svc, race, anth>>

\* The response is sent; the table keeps what was committed.
EnhanceDone ==
    /\ enh.pc = "done"
    /\ enh' = EnhIdle(enh.db)
    /\ UNCHANGED <<llm, sg, st, rp, svc, race, anth>>

InitEnhance ==
    /\ llm = LLMIdle
    /\ \E row \in WordRows : enh = EnhIdle(row)
    /\ sg = 0
    /\ st = 0
    /\ rp = 0
    /\ svc = 0
    /\ race = 0
    /\ anth = 0

NextEnhance ==
    \/ EnhanceWordContent
    \/ BatchEnhanceWords
    \/ EnhanceWordDirect
    \/ EnhanceAttempt
    \/ EnhanceCommit
    \/ EnhanceDone

SpecEnhance == InitEnhance /\ [][NextEnhance]_vars

(***************************************************************************)
(* Claims on the word enhancer and the enhance endpoints                   *)
(***************************************************************************)
ContentFields == {"word_english", "word_cantonese", "jyutping",
                  "definition_english", "definition_cantonese",
                  "example_english", "example_cantonese", "difficulty"}

\* enhance_word has been called and has ended (returned or raised).
EnhanceWordEnded ==
    /\ enh.pc \in {"commit", "done"}
    /\ enh.op \in {"single", "batch", "direct"}
    /\ enh.outcome \notin {"http404", "no_words"}

\* Contents a model could make enhance_word return: every field non-empty
\* text, the word fields possibly those of another word.
AnyContents ==
    {Content(we, wc, <<"gau2">>, de, <<"zh:def-dog">>, <<"I", "see", "a", "dog">>,
             <<"zh:ex-dog">>, di) :
        we \in {<<"Cat">>, <<"Dog">>},
        wc \in {<<"zh:cat">>, <<"zh:dog">>, <<"Cat">>},
        de \in {<<"A", "pet", "that", "barks">>, <<"A", "word", "learned", "from", "x">>},
        di \in {<<"easy">>, <<"medium">>, <<"hard">>, <<"unknown">>}}

\* C1: when every call of the generation client raises, enhance_word calls
\* it exactly max_retries times, then returns the deterministic fallback
\* content, and no exception reaches the caller; it never calls the client
\* more than max_retries times.
C1_RetryBoundThenFallback ==
    /\ enh.calls <= enh.maxRetries
    /\ (EnhanceWordEnded /\ enh.allRaised) =>
          /\ enh.calls = enh.maxRetries
          /\ ~enh.escaped
          /\ enh.source = "fallback"
          /\ enh.result = _create_fallback_content(enh.pre.word.v)

C1_Witness ==
    /\ enh.pc = "done" /\ enh.op = "single" /\ enh.allRaised
    /\ enh.calls = DefaultMaxRetries /\ enh.source = "fallback"

\* C2: a word whose English and Cantonese texts were both non-empty before
\* an enhance request keeps both, in the table and in the loaded object, at
\* every point of the request (single or batch), and would keep both
\* whatever content enhance_word returned for it.
C2_IdentityPreserved ==
    /\ (enh.op \in {"single", "batch"}
        /\ ~Falsy(enh.pre.word) /\ ~Falsy(enh.pre.word_cantonese)) =>
          /\ enh.db.word = enh.pre.word
          /\ enh.db.word_cantonese = enh.pre.word_cantonese
          /\ enh.word.word = enh.pre.word
          /\ enh.word.word_cantonese = enh.pre.word_cantonese
    /\ (~Falsy(enh.db.word) /\ ~Falsy(enh.db.word_cantonese)) =>
          \A c \in AnyContents :
              /\ apply_enhancement(enh.db, enh.db.word, c).word = enh.db.word
              /\ apply_enhancement(enh.db, enh.db.word, c).word_cantonese
                    = enh.db.word_cantonese

C2_Witness ==
    /\ enh.pc = "done" /\ enh.op \in {"single", "batch"} /\ enh.outcome = "ok"
    /\ ~Falsy(enh.pre.word) /\ ~Falsy(enh.pre.word_cantonese)
    /\ enh.result.word_cantonese # enh.pre.word_cantonese.v
    /\ enh.db.word_cantonese = enh.pre.word_cantonese

PreservedFields == {"word_cantonese", "jyutping", "definition_cantonese",
                    "example_cantonese", "example", "difficulty"}

\* C3: after the enhance endpoint has run, every field that was non-empty
\* before (word_cantonese, jyutping, definition_cantonese, example_cantonese,
\* example, difficulty, and a definition without the generic marker) has the
\* value it had before.
C3_OnlyGapsFilled ==
    (enh.pc = "done" /\ enh.op = "single" /\ enh.outcome = "ok") =>
        /\ \A f \in PreservedFields :
              ~Falsy(enh.pre[f]) => enh.db[f] = enh.pre[f]
        /\ ~IsGeneric(enh.pre.definition) => enh.db.definition = enh.pre.definition

\* C6: every content enhance_word returns for a non-empty word has every
\* text field non-empty.
C6_NoEmptyField ==
    (EnhanceWordEnded /\ enh.source # "none" /\ enh.pre.word.v # <<>>) =>
        \A f \in ContentFields : enh.result[f] # <<>>

(***************************************************************************)
(* Claims on LLMService._generate_ollama                                   *)
(***************************************************************************)
Count(calls, endpoint) == Cardinality({i \in 1..Len(calls) : calls[i] = endpoint})

NonBlank(jv) == jv.t = "str" /\ strip(jv.v) # <<>>

\* C7: generate calls the chat endpoint first; whenever the chat call fails
\* in any way (it does not hand back a text) exactly one call to the
\* generate endpoint is issued, and when it succeeds none is.
C7_ChatFirstThenOneCompletion ==
    (llm.pc = "done" /\ llm.msgKind = "LLMMessage") =>
        /\ llm.calls # <<>> /\ llm.calls[1] = "chat"
        /\ llm.chatOut.kind # "return" => Count(llm.calls, "generate") = 1
        /\ llm.chatOut.kind = "return" => Count(llm.calls, "generate") = 0

\* C8: every call of generate for Ollama either returns a string that is
\* non-blank after trimming or raises; it never returns an empty or absent
\* value.
C8_NonBlankOrRaise ==
    llm.pc = "done" =>
        \/ llm.result.kind = "raise"
        \/ llm.result.kind = "return" /\ strip(llm.result.value) # <<>>

\* A 200 chat answer whose content is present and blank, with a non-blank
\* thinking text in the message or at the top level.
ChatBlankWithThinking(r) ==
    /\ r.err = "none" /\ r.status = 200 /\ r.json /\ r.message = "dict"
    /\ r.content.t # "absent" /\ IsBlank(r.content)
    /\ (NonBlank(r.mthinking) \/ NonBlank(r.thinking))

GenBlankWithThinking(r) ==
    /\ r.err = "none" /\ r.status = 200 /\ r.json
    /\ r.response.t # "absent" /\ IsBlank(r.response)
    /\ NonBlank(r.thinking)

\* C9: on either transport, a 200 answer whose primary text is blank and
\* that carries a non-blank thinking text makes the transport return a
\* thinking text of the answer instead of reporting an empty response.
C9_ThinkingFallback ==
    /\ ChatBlankWithThinking(llm.chat) =>
          /\ llm.chatOut.kind = "return"
          /\ \/ NonBlank(llm.chat.mthinking) /\ llm.chatOut.value = llm.chat.mthinking.v
             \/ NonBlank(llm.chat.thinking) /\ llm.chatOut.value = llm.chat.thinking.v
    /\ GenBlankWithThinking(llm.gen) =>
          /\ llm.result.kind = "return"
          /\ llm.result.value = llm.gen.thinking.v

InitLLM ==
    llm = LLMIdle /\ enh = 0 /\ sg = 0 /\ st = 0 /\ rp = 0 /\ svc = 0 /\ race = 0 /\ anth = 0

NextLLM == LLM_Generate \/ LLM_ChatReply \/ LLM_GenerateReply \/ LLM_Done

SpecLLM == InitLLM /\ [][NextLLM]_vars

(***************************************************************************)
(* SentenceGeneratorService.generate_sentences (sentence_generator.py) and *)
(* the generated_sentences table (models/generated_sentences.py)           *)
(***************************************************************************)
SentItem(s, se, jy, ctx, di) ==
    [sentence |-> s, sentence_english |-> se, jyutping |-> jy,
     context |-> ctx, difficulty |-> di]

\* The documents a model may answer with, as json.loads yields them: the
\* "sentences" key (absent or a list) and the items of the list.
SentBody(b) ==
    CASE b = "S_two" ->
           [sentences |-> "list",
            items |-> <<SentItem(Str(<<"zh:cat-at-home">>),
                                 Str(<<"The", "cat", "is", "home">>),
                                 Str(<<"maau1", "hai2", "uk1">>),
                                 Str(<<"home">>), Str(<<"easy">>)),
                        SentItem(Str(<<"zh:cat-in-park">>),
                                 Str(<<"A", "cat", "in", "the", "park">>),
                                 Str(<<"maau1", "hai2", "gung1">>),
                                 Str(<<"park">>), Absent)>>]
      [] b = "S_nojyutping" ->
           [sentences |-> "list",
            items |-> <<SentItem(Str(<<"zh:cat-at-school">>),
                                 Str(<<"A", "cat", "at", "school">>),
                                 Absent, Str(<<"school">>), Str(<<"easy">>))>>]
      [] b = "S_empty" ->
           [sentences |-> "list", items |-> <<>>]
      [] b = "S_nocontext" ->
           [sentences |-> "list",
            items |-> <<SentItem(Str(<<"zh:cat-at-home">>),
                                 Str(<<"The", "cat", "is", "home">>),
                                 Str(<<"maau1", "hai2", "uk1">>),
                                 Absent, Str(<<"easy">>))>>]
      [] OTHER ->
           [sentences |-> "absent", items |-> <<>>]

\* GeneratedSentence(**s) (lines 16-22): sentence and context are required
\* strings, sentence_english and jyutping are optional, difficulty defaults.
item_valid(s) ==
    /\ s.sentence.t = "str"
    /\ s.context.t = "str"
    /\ s.difficulty.t # "null"

item_model(s) ==
    SentItem(s.sentence,
             IF s.sentence_english.t = "absent" THEN Null ELSE s.sentence_english,
             IF s.jyutping.t = "absent" THEN Null ELSE s.jyutping,
             s.context,
             IF s.difficulty.t = "absent" THEN Str(<<"easy">>) ELSE s.difficulty)

SentParseFailed(exc) == [ok |-> FALSE, exc |-> exc, sentences |-> <<>>]

\* Line 236 on the loaded document.
sentences_validate(d) ==
    IF d.sentences = "absent" THEN SentParseFailed("KeyError")
    ELSE IF \E i \in 1..Len(d.items) : ~item_valid(d.items[i])
    THEN SentParseFailed("ValidationError")
    ELSE [ok |-> TRUE, exc |-> "none",
          sentences |-> [i \in 1..Len(d.items) |-> item_model(d.items[i])]]

\* Lines 235-236: json.loads, then data["sentences"] (a top-level array has
\* no string keys: TypeError).
sentences_loaded(p) ==
    IF ~p.ok THEN SentParseFailed("JSONDecodeError")
    ELSE IF p.top = "array" THEN SentParseFailed("TypeError")
    ELSE sentences_validate(SentBody(p.body))

\* Lines 227-228: a leading fence with the json tag is cut.
sent_drop_fence_json(t) ==
    IF Len(t) >= 2 /\ t[1] = "FENCE" /\ t[2] = "json" THEN SubSeq(t, 3, Len(t))
    ELSE t

\* Lines 229-230: a leading fence is cut.
sent_drop_fence_head(t) ==
    IF t # <<>> /\ t[1] = "FENCE" THEN Tail(t) ELSE t

\* Lines 231-232: a trailing fence is cut.
sent_drop_fence_tail(t) ==
    IF t # <<>> /\ t[Len(t)] = "FENCE" THEN SubSeq(t, 1, Len(t) - 1) ELSE t

\* Lines 226-233.
sentence_clean(response) ==
    strip(sent_drop_fence_tail(sent_drop_fence_head(sent_drop_fence_json(strip(response)))))

\* Lines 226-236 on a response text.
sentences_parse(response) == sentences_loaded(json_loads(sentence_clean(response)))

\* word.word_cantonese or word.word (line 200).
word_cantonese_or_word(word) ==
    IF Falsy(word.word_cantonese) THEN word.word.v ELSE word.word_cantonese.v

\* A placeholder sentence that carries an empty jyutping instead of none.
fallback_sentence_with_jyutping(word) ==
    SentItem(IF ~Falsy(word.example_cantonese) THEN word.example_cantonese
             ELSE IF ~Falsy(word.example) THEN word.example
             ELSE Str(<<"zh:I-see">> \o word_cantonese_or_word(word)),
             IF ~Falsy(word.example) THEN word.example
             ELSE Str(<<"I", "see", "a">> \o word.word.v),
             Str(<<>>), Str(<<"general">>), Str(<<"easy">>))

\* The placeholder sentence (lines 241-248): jyutping is not given.
fallback_sentence(word) ==
    SentItem(IF ~Falsy(word.example_cantonese) THEN word.example_cantonese
             ELSE IF ~Falsy(word.example) THEN word.example
             ELSE Str(<<"zh:I-see">> \o word_cantonese_or_word(word)),
             IF ~Falsy(word.example) THEN word.example
             ELSE Str(<<"I", "see", "a">> \o word.word.v),
             Null, Str(<<"general">>), Str(<<"easy">>))

SentResult(outcome, source, exc, sentences) ==
    [outcome |-> outcome, source |-> source, exc |-> exc, sentences |-> sentences]

\* The except clause of line 237 catches JSONDecodeError and KeyError only.
sentences_parsed(p, word) ==
    IF p.ok THEN SentResult("continue", "model", "none", p.sentences)
    ELSE IF p.exc \in {"JSONDecodeError", "KeyError"}
    THEN SentResult("continue", "fallback", p.exc, <<fallback_sentence(word)>>)
    ELSE SentResult("raised", "none", p.exc, <<>>)

\* generate_sentences with the provider call inside the try block and a
\* catch-all handler: a failed call yields the placeholder.
generate_sentences_catch_all(gen, word) ==
    IF gen.kind # "return"
    THEN SentResult("continue", "fallback", "none", <<fallback_sentence(word)>>)
    ELSE sentences_parsed(sentences_parse(gen.value), word)

\* Lines 217-248 given what generate() did.  The call is awaited outside the
\* try block, once; None has no strip() (AttributeError inside the try
\* block, not caught).
generate_sentences_parse(gen, word) ==
    IF gen.kind = "raise" THEN SentResult("raised", "none", gen.exc, <<>>)
    ELSE IF gen.kind = "return_none"
    THEN SentResult("raised", "none", "AttributeError", <<>>)
    ELSE sentences_parsed(sentences_parse(gen.value), word)

\* generated_sentences: sentence, sentence_english and jyutping are
\* NOT NULL columns (models/generated_sentences.py lines 19-21).
NotNullOk(row) ==
    /\ row.sentence.t = "str"
    /\ row.sentence_english.t = "str"
    /\ row.jyutping.t = "str"

SentWordRows ==
    {Word(Str(<<"Cat">>), wc, Null, Str(<<"A", "small", "furry", "animal">>), Null,
          ex, ec, Null) :
        wc \in {Null, Str(<<"zh:cat">>)},
        ex \in {Str(<<>>), Str(<<"I", "saw", "a", "cat">>)},
        ec \in {Null, Str(<<"zh:I-saw-a-cat">>)}}

OldRow == SentItem(Str(<<"zh:old-sentence">>), Str(<<"An", "old", "sentence">>),
                   Str(<<"gau6">>), Str(<<"home">>), Str(<<"easy">>))

SentOutputs ==
    {<<"{", "S_two", "}">>,
     <<"FENCE", "json", "\n", "{", "S_nojyutping", "}", "\n", "FENCE">>,
     <<"FENCE", "\n", "{", "S_empty", "}", "\n", "FENCE">>,
     <<"{", "S_nokey", "}">>,
     <<"{", "S_nocontext", "}">>,
     <<"p", " ", "{", "S_two", "}">>,
     <<"[", "S_two", "]">>}

NoSession == [deleted |-> FALSE, added |-> <<>>]

SGIdle(word, stored) ==
    [pc |-> "idle", word |-> word, stored |-> stored, pre |-> stored,
     save_to_db |-> FALSE, db |-> FALSE, calls |-> 0, gen |-> ReturnNone,
     source |-> "none", outcome |-> "none", exc |-> "none", sentences |-> <<>>,
     session |-> NoSession, saveFailed |-> FALSE]

\* generate_sentences is called: the prompt is built and generate() awaited.
GenerateSentences ==
    /\ sg.pc = "idle"
    /\ \E save \in BOOLEAN, db \in BOOLEAN :
        sg' = [SGIdle(sg.word, sg.stored) EXCEPT
                  !.pc = "gen", !.save_to_db = save, !.db = db]
    /\ UNCHANGED <<llm, enh, st, rp, svc, race, anth>>

\* generate() ends and its outcome is parsed (lines 217-248).
SG_Parse ==
    /\ sg.pc = "gen"
    /\ \E c \in OrchChat(SentOutputs), g \in OrchGen(SentOutputs) :
        LET gen == _generate_ollama("LLMMessage", c, g).result
            r == generate_sentences_parse(gen, sg.word)
        IN sg' = [sg EXCEPT
                     !.calls = @ + 1, !.gen = gen, !.source = r.source,
                     !.exc = r.exc, !.sentences = r.sentences,
                     !.outcome = IF r.outcome = "raised" THEN "raised"
                                 ELSE IF sg.save_to_db /\ sg.db THEN "none"
                                 ELSE "returned",
                     !.pc = IF r.outcome = "raised" THEN "done"
                            ELSE IF sg.save_to_db /\ sg.db THEN "delete"
                            ELSE "done"]
    /\ UNCHANGED <<llm, enh, st, rp, svc, race, anth>>

\* await db.execute(delete ...) and the db.add loop (lines 254-271), inside
\* the session's transaction; a failing statement goes to the handler of
\* lines 274-278, which rolls back.
SG_Delete ==
    /\ sg.pc = "delete"
    /\ \E ok \in BOOLEAN :
        sg' = IF ok
              THEN [sg EXCEPT !.pc = "commit",
                              !.session = [deleted |-> TRUE, added |-> sg.sentences]]
              ELSE [sg EXCEPT !.pc = "done", !.session = NoSession,
                              !.saveFailed = TRUE, !.outcome = "returned"]
    /\ UNCHANGED <<llm, enh, st, rp, svc, race, anth>>

\* await db.commit() (line 273): the inserts are flushed and the NOT NULL
\* columns checked; a failure is printed and rolled back (lines 274-278),
\* and the result is returned either way.
SG_Commit ==
    /\ sg.pc = "commit"
    /\ \E ok \in BOOLEAN :
        sg' = IF ok /\ \A i \in 1..Len(sg.session.added) : NotNullOk(sg.session.added[i])
              THEN [sg EXCEPT !.pc = "done", !.stored = sg.session.added,
                              !.session = NoSession, !.outcome = "returned"]
              ELSE [sg EXCEPT !.pc = "done", !.session = NoSession,
                              !.saveFailed = TRUE, !.outcome = "returned"]
    /\ UNCHANGED <<llm, enh, st, rp, svc, race, anth>>

\* The caller has the result or the exception.
SG_Done ==
    /\ sg.pc = "done"
    /\ sg' = SGIdle(sg.word, sg.stored)
    /\ UNCHANGED <<llm, enh, st, rp, svc, race, anth>>

InitSentences ==
    /\ llm = LLMIdle
    /\ enh = 0
    /\ \E word \in SentWordRows, stored \in {<<>>, <<OldRow>>} :
        sg = SGIdle(word, stored)
    /\ st = 0
    /\ rp = 0
    /\ svc = 0
    /\ race = 0
    /\ anth = 0

NextSentences ==
    \/ GenerateSentences
    \/ SG_Parse
    \/ SG_Delete
    \/ SG_Commit
    \/ SG_Done

SpecSentences == InitSentences /\ [][NextSentences]_vars

(***************************************************************************)
(* Claims on generate_sentences                                            *)
(***************************************************************************)
\* generate() did not hand back a text: it raised or returned None.
ProviderFailed == sg.calls > 0 /\ sg.gen.kind # "return"

C10_PlaceholderNeverPersisted ==
    /\ sg.source # "model" => sg.stored = sg.pre
    /\ sg.stored # sg.pre =>
          /\ sg.source = "model"
          /\ sg.save_to_db /\ sg.db
          /\ sg.stored = sg.sentences
    /\ (sg.pc = "done" /\ sg.source = "fallback") =>
          /\ sg.stored = sg.pre
          /\ sg.session = NoSession
          /\ (sg.save_to_db /\ sg.db) => sg.saveFailed

C10_Witness ==
    /\ sg.pc = "done" /\ sg.source = "fallback" /\ sg.save_to_db /\ sg.db
    /\ sg.pre = <<OldRow>> /\ sg.stored = <<OldRow>> /\ sg.saveFailed
    /\ sg.outcome = "returned"

(***************************************************************************)
(* StoryGeneratorService (story_generator.py) and POST /generate           *)
(* (bedtime_stories.py).  A story text is a sequence of tokens: s is one   *)
(* character of story, S60 a passage of sixty, KEY a quoted member name    *)
(* with its colon; braces, brackets, commas and whitespace as above.       *)
(***************************************************************************)
MaxStories == 2

CleanedMin == 50

StoryFields(title, title_english, content, word_usage) ==
    [title |-> title, title_english |-> title_english, content |-> content,
     word_usage |-> word_usage]

\* A usage map: each key with its note, "ai" for a note with text, "" for
\* an empty note, "null" for a null one.
NoUsage == [k \in {} |-> "ai"]

ModelNotes(keys) == [k \in keys |-> "ai"]

\* The member lists a model may answer with.  word_usage is empty when the
\* member is missing, null or no dict (lines 444-447); T_cut is a member
\* list cut off inside the content string.
StoryBody(b) ==
    CASE b = "T_ok" ->
           StoryFields(Str(<<"zh:title">>), Str(<<"The", "Cat">>), Str(<<"S60">>),
                       ModelNotes({"zh:cat", "zh:bird"}))
      [] b = "T_short" ->
           StoryFields(Absent, Absent, Str(<<"s", "\n", "s">>), NoUsage)
      [] b = "T_leak" ->
           StoryFields(Str(<<"zh:title">>), Null,
                       Str(<<"s", "}", ",", "KEY", "S60">>), ModelNotes({"zh:cat"}))
      [] b = "T_brace" ->
           StoryFields(Str(<<"zh:title">>), Absent, Str(<<"}">>), NoUsage)
      [] b = "T_nocontent" ->
           StoryFields(Str(<<"zh:title">>), Str(<<"The", "Cat">>), Absent, ModelNotes({"zh:cat"}))
      [] b = "T_nullcontent" ->
           StoryFields(Str(<<"zh:title">>), Absent, Null, NoUsage)
      [] b = "T_blanknote" ->
           StoryFields(Str(<<"zh:title">>), Str(<<"The", "Cat">>), Str(<<"S60">>),
                       [k \in {"zh:cat", "zh:dog"} |->
                           IF k = "zh:cat" THEN "" ELSE "null"])
      [] b = "T_esc" ->
           StoryFields(Str(<<"zh:title">>), Absent,
                       Str(<<"s", "ESC_N", "ESC_A", "}", ",", "KEY", "S60", "ESC_Q">>),
                       NoUsage)
      [] b = "T_longesc" ->
           StoryFields(Str(<<"zh:title">>), Absent,
                       Str(<<"S60", "ESC_N", "ESC_Q", "ESC_A", "s",
                             "ESC_N", "ESC_N", "KEY", "{", "s">>),
                       NoUsage)
      [] b = "T_fifty" ->
           StoryFields(Str(<<"zh:title">>), Absent, Str(<<"S50", "}">>), NoUsage)
      [] b = "T_cut" ->
           StoryFields(Str(<<"zh:title">>), Absent, Absent, NoUsage)
      [] b = "Q_doc" ->
           StoryFields(Str(<<"zh:title">>), Absent, Str(<<"s", "s">>), NoUsage)
      [] b = "Q_open" ->
           StoryFields(Str(<<"zh:title">>), Absent, Absent, NoUsage)
      [] OTHER ->
           StoryFields(Absent, Absent, Absent, NoUsage)

TokLen(tok) ==
    CASE tok = "S60" -> 60
      [] tok = "S50" -> 50
      [] tok = "KEY" -> 8
      [] tok \in {"ESC_N", "ESC_Q", "ESC_A"} -> 2
      [] OTHER -> 1

RECURSIVE CharLen(_)
CharLen(t) == IF t = <<>> THEN 0 ELSE TokLen(Head(t)) + CharLen(Tail(t))

\* The text from position start up to the next fence, or to the end
\* (split(fence)[0]).
UpToFence(t, start) ==
    IF Find(t, "FENCE", start) # 0 THEN SubSeq(t, start, Find(t, "FENCE", start) - 1)
    ELSE SubSeq(t, start, Len(t))

\* Lines 123-132: the block after the first json fence; else, with two
\* fences or more, the block between the first two.
story_strip_fence(t) ==
    IF FindFenceJson(t) # 0 THEN strip(UpToFence(t, FindFenceJson(t) + 2))
    ELSE IF Count(t, "FENCE") >= 2 THEN strip(UpToFence(t, Find(t, "FENCE", 1) + 1))
    ELSE t

\* The first position after i that holds no whitespace, 0 when there is none.
NextNonWs(t, i) ==
    LET hits == {j \in (i + 1)..Len(t) : t[j] \notin Whitespace} IN
    IF hits = {} THEN 0 ELSE CHOOSE j \in hits : \A k \in hits : j <= k

\* Fix 1 (line 148): a comma that only whitespace separates from a closing
\* brace or bracket goes, with that whitespace.
RECURSIVE story_fix_commas(_)
story_fix_commas(t) ==
    IF t = <<>> THEN t
    ELSE IF Head(t) = "," /\ lstrip(Tail(t)) # <<>> /\ Head(lstrip(Tail(t))) \in {"}", "]"}
    THEN story_fix_commas(lstrip(Tail(t)))
    ELSE <<Head(t)>> \o story_fix_commas(Tail(t))

RECURSIVE rstrip_commas(_)
rstrip_commas(t) ==
    IF t # <<>> /\ t[Len(t)] = "," THEN rstrip_commas(SubSeq(t, 1, Len(t) - 1)) ELSE t

\* Fix 2 (line 151).
story_fix_tail(t) == rstrip_commas(rstrip(t))

\* Fix 3 (lines 154-156): from the first opening brace to the last closing
\* brace after it.
story_fix_extract(t) ==
    IF Find(t, "{", 1) # 0 /\ RFind(t, "}") > Find(t, "{", 1)
    THEN SubSeq(t, Find(t, "{", 1), RFind(t, "}"))
    ELSE t

story_fixed(t) == story_fix_extract(story_fix_tail(story_fix_commas(t)))

BodyTokens == {"T_ok", "T_short", "T_leak", "T_brace", "T_nocontent",
               "T_nullcontent", "T_cut", "Q_open", "T_blanknote", "T_esc",
               "T_longesc", "T_fifty"}

\* The first member list of the text in which the pattern for `field` finds
\* a quoted value: a title of one character or more (lines 171-173), a
\* content string that is closed (lines 176-200).
RegexMatch(t, field) ==
    LET hits == {i \in 1..Len(t) :
                    /\ t[i] \in BodyTokens
                    /\ StoryBody(t[i])[field].t = "str"
                    /\ (field = "title" => StoryBody(t[i])[field].v # <<>>)} IN
    IF hits = {} THEN 0 ELSE CHOOSE i \in hits : \A j \in hits : i <= j

\* Lines 211-213: the entries whose value is a quoted string; an entry with
\* a null value does not match.
QuotedNotes(usage) == [k \in {x \in DOMAIN usage : usage[x] # "null"} |-> usage[k]]

RegexUsage(t) ==
    LET hits == {i \in 1..Len(t) : t[i] \in BodyTokens
                                    /\ DOMAIN StoryBody(t[i]).word_usage # {}} IN
    IF hits = {} THEN NoUsage
    ELSE QuotedNotes(StoryBody(t[CHOOSE i \in hits : \A j \in hits : i <= j]).word_usage)

StoryParsed(top, d) == [ok |-> TRUE, exc |-> "none", top |-> top, data |-> d]

StoryParseFailed(exc) ==
    [ok |-> FALSE, exc |-> exc, top |-> "none", data |-> StoryBody("none")]

\* A last resort that builds a document from whichever of the two fields
\* it finds.
story_regex_extract_any(t) ==
    IF RegexMatch(t, "title") # 0 \/ RegexMatch(t, "content") # 0
    THEN StoryParsed("object",
                     StoryFields(IF RegexMatch(t, "title") # 0
                                 THEN StoryBody(t[RegexMatch(t, "title")]).title
                                 ELSE Absent,
                                 Str(<<"Story">>),
                                 IF RegexMatch(t, "content") # 0
                                 THEN StoryBody(t[RegexMatch(t, "content")]).content
                                 ELSE Absent,
                                 RegexUsage(t)))
    ELSE StoryParseFailed("ValueError")

\* Lines 166-243: the last resort needs a title and a content match.
story_regex_extract(t) ==
    IF RegexMatch(t, "title") # 0 /\ RegexMatch(t, "content") # 0
    THEN StoryParsed("object",
                     StoryFields(StoryBody(t[RegexMatch(t, "title")]).title,
                                 Str(<<"Story">>),
                                 StoryBody(t[RegexMatch(t, "content")]).content,
                                 RegexUsage(t)))
    ELSE StoryParseFailed("ValueError")

story_loaded(p) == StoryParsed(p.top, StoryBody(p.body))

\* Lines 157-243: the second json.loads, then the last resort.
story_parse_fixed(t) ==
    IF json_loads(story_fixed(t)).ok THEN story_loaded(json_loads(story_fixed(t)))
    ELSE story_regex_extract(t)

\* Lines 135-243 on the text left by the fence step.
story_parse_text(t) ==
    IF json_loads(t).ok THEN story_loaded(json_loads(t)) ELSE story_parse_fixed(t)

\* _parse_story_json (lines 110-243).
_parse_story_json(ai_response) == story_parse_text(story_strip_fence(ai_response))

\* Line 255: from a closing brace, a comma and a member name on, all goes.
clean_leaked(t) ==
    LET hits == {i \in 1..Len(t) :
                    /\ t[i] = "}"
                    /\ NextNonWs(t, i) # 0 /\ t[NextNonWs(t, i)] = ","
                    /\ NextNonWs(t, NextNonWs(t, i)) # 0
                    /\ t[NextNonWs(t, NextNonWs(t, i))] = "KEY"} IN
    IF hits = {} THEN t
    ELSE SubSeq(t, 1, (CHOOSE i \in hits : \A j \in hits : i <= j) - 1)

RECURSIVE rstrip_fragments(_)
rstrip_fragments(t) ==
    IF t # <<>> /\ t[Len(t)] \in {",", "}", "]"}
    THEN rstrip_fragments(SubSeq(t, 1, Len(t) - 1)) ELSE t

\* Line 263: a closing run of commas, braces and brackets goes, with the
\* whitespace around it.
clean_trailing(t) ==
    IF rstrip(t) # <<>> /\ rstrip(t)[Len(rstrip(t))] \in {",", "}", "]"}
    THEN rstrip(rstrip_fragments(rstrip(t)))
    ELSE t

\* Line 266: three newlines or more become two.
RECURSIVE clean_newlines(_)
clean_newlines(t) ==
    IF Len(t) >= 3 /\ t[1] = "\n" /\ t[2] = "\n" /\ t[3] = "\n"
    THEN clean_newlines(Tail(t))
    ELSE IF t = <<>> THEN t
    ELSE <<Head(t)>> \o clean_newlines(Tail(t))

\* Line 254: from two escaped newlines, a member name and an opening brace
\* on, all goes.  ESC_N, ESC_Q and ESC_A are a backslash followed by n, by
\* a double quote and by an apostrophe.
clean_leaked_object(t) ==
    LET hits == {i \in 1..Len(t) :
                    /\ t[i] = "ESC_N"
                    /\ i < Len(t) /\ t[i + 1] = "ESC_N"
                    /\ NextNonWs(t, i + 1) # 0 /\ t[NextNonWs(t, i + 1)] = "KEY"
                    /\ NextNonWs(t, NextNonWs(t, i + 1)) # 0
                    /\ t[NextNonWs(t, NextNonWs(t, i + 1))] = "{"} IN
    IF hits = {} THEN t
    ELSE SubSeq(t, 1, (CHOOSE i \in hits : \A j \in hits : i <= j) - 1)

\* replace of an escaped newline and of an escaped double quote (lines
\* 258-259, line 432).
unescape_newline_quote(t) ==
    [i \in 1..Len(t) |-> IF t[i] = "ESC_N" THEN "\n"
                          ELSE IF t[i] = "ESC_Q" THEN "QUOTE" ELSE t[i]]

\* Line 260: replace of an escaped apostrophe.
unescape_apostrophe(t) ==
    [i \in 1..Len(t) |-> IF t[i] = "ESC_A" THEN "APOS" ELSE t[i]]

\* _clean_story_content (lines 245-271).
_clean_story_content(content) ==
    IF content = <<>> THEN <<>>
    ELSE strip(clean_newlines(clean_trailing(
             unescape_apostrophe(unescape_newline_quote(
                 clean_leaked(clean_leaked_object(content)))))))

\* Lines 430-432 with both tests inclusive.
story_text_of_inclusive(raw) ==
    IF CharLen(_clean_story_content(raw)) <= CleanedMin /\ CharLen(raw) >= CleanedMin
    THEN unescape_newline_quote(raw)
    ELSE _clean_story_content(raw)

\* Lines 430-432: when cleaning left too little of a long text, the raw
\* text is taken with its escaped newlines and quotes replaced.
story_text_of(raw) ==
    IF CharLen(_clean_story_content(raw)) < CleanedMin /\ CharLen(raw) > CleanedMin
    THEN unescape_newline_quote(raw)
    ELSE _clean_story_content(raw)

\* A usage map that takes every entry of the model as it is and adds the
\* default for the missing words.
word_usage_unfiltered(words, ai_word_usage) ==
    [k \in {words[i] : i \in 1..Len(words)} \cup DOMAIN ai_word_usage |->
        IF k \in DOMAIN ai_word_usage THEN ai_word_usage[k] ELSE "default"]

\* Lines 439-461: the usage notes cover exactly the tracked words; a note
\* comes from the model when its key is a tracked word, else the default.
word_usage_dict(words, ai_word_usage) ==
    [k \in {words[i] : i \in 1..Len(words)} |->
        IF k \in DOMAIN ai_word_usage THEN ai_word_usage[k] ELSE "default"]

Story(title, title_english, story_text, word_usage, word_count) ==
    [title |-> title, title_english |-> title_english, story_text |-> story_text,
     word_usage |-> word_usage, word_count |-> word_count]

NoStory == Story(<<>>, <<>>, <<>>, <<>>, 0)

StoryResult(outcome, exc, story) == [outcome |-> outcome, exc |-> exc, story |-> story]

\* Lines 472-510: the record handed to db.add.
story_record(d, words) ==
    Story(IF Falsy(d.title) THEN <<"zh:todays-story">> ELSE d.title.v,
          IF Falsy(d.title_english) THEN <<"Story">> ELSE d.title_english.v,
          story_text_of(d.content.v),
          word_usage_dict(words, d.word_usage),
          CharLen(story_text_of(d.content.v)))

\* Lines 410-421 on the parsed data: a list has no get() (AttributeError);
\* a missing, null or empty content is a ValueError.
story_from_data(p, words) ==
    IF ~p.ok THEN StoryResult("raised", p.exc, NoStory)
    ELSE IF p.top # "object" THEN StoryResult("raised", "AttributeError", NoStory)
    ELSE IF Falsy(p.data.content) THEN StoryResult("raised", "ValueError", NoStory)
    ELSE StoryResult("commit", "none", story_record(p.data, words))

\* generate_story with a handler that answers every failure of the call or
\* of the parse with a placeholder story.
generate_story_with_placeholder(gen, words) ==
    IF gen.kind # "return" \/ story_from_data(_parse_story_json(gen.value), words).outcome = "raised"
    THEN StoryResult("commit", "none",
                     Story(<<"zh:todays-story">>, <<"Story">>, <<"s">>,
                           word_usage_dict(words, NoUsage), 1))
    ELSE story_from_data(_parse_story_json(gen.value), words)

\* Lines 391-510 given what generate() did: every exception is printed and
\* raised again (lines 519-521); None has no len() (TypeError, line 115).
generate_story_build(gen, words) ==
    IF gen.kind = "raise" THEN StoryResult("raised", gen.exc, NoStory)
    ELSE IF gen.kind = "return_none" THEN StoryResult("raised", "TypeError", NoStory)
    ELSE story_from_data(_parse_story_json(gen.value), words)

\* POST /generate (bedtime_stories.py lines 132-157): ValueError is answered
\* with 400, any other exception with 500.
http_status(exc) ==
    IF exc = "none" THEN 200 ELSE IF exc = "ValueError" THEN 400 ELSE 500

TrackedWords == {<<>>, <<"zh:cat">>, <<"zh:cat", "zh:dog">>}

StoryOutputs ==
    {<<"{", "T_ok", "}">>,
     <<"p", "\n", "FENCE", "json", "\n", "{", "T_short", "}", "\n", "FENCE", "\n", "p">>,
     <<"FENCE", "\n", "{", "T_leak", ",", "\n", "}", "\n", "FENCE">>,
     <<"{", "T_brace", "}", " ", "p">>,
     <<"{", "T_nocontent", "}">>,
     <<"{", "T_nullcontent", "}">>,
     <<"{", "T_ok">>,
     <<"{", "T_cut">>,
     <<"{", "T_blanknote", "}">>,
     <<"{", "T_esc", "}">>,
     <<"{", "T_longesc", "}">>,
     <<"{", "T_fifty", "}">>,
     <<"[", "T_ok", "]">>,
     <<"p">>}

STIdle(stories) ==
    [pc |-> "idle", stories |-> stories, pre |-> stories, words |-> <<>>,
     calls |-> 0, gen |-> ReturnNone, outcome |-> "none", exc |-> "none",
     http |-> 0, story |-> NoStory]

STRaised(s, exc) ==
    [s EXCEPT !.pc = "done", !.outcome = "raised", !.exc = exc,
              !.http = http_status(exc)]

\* generate_story is called (lines 357-379): the service must have its
\* client, the child must exist and must have words tracked for the day.
GenerateStory ==
    /\ st.pc = "idle"
    /\ Len(st.stories) < MaxStories
    /\ \E service \in BOOLEAN, child \in BOOLEAN, words \in TrackedWords :
        st' = IF ~service \/ ~child \/ words = <<>>
              THEN STRaised([STIdle(st.stories) EXCEPT !.words = words], "ValueError")
              ELSE [STIdle(st.stories) EXCEPT !.pc = "gen", !.words = words]
    /\ UNCHANGED <<llm, enh, sg, rp, svc, race, anth>>

\* generate() ends; its text is parsed and cleaned and the record added to
\* the session (lines 402-512).
ST_Build ==
    /\ st.pc = "gen"
    /\ \E c \in OrchChat(StoryOutputs), g \in OrchGen(StoryOutputs) :
        LET gen == _generate_ollama("LLMMessage", c, g).result
            r == generate_story_build(gen, st.words)
        IN st' = IF r.outcome = "raised"
                 THEN STRaised([st EXCEPT !.calls = @ + 1, !.gen = gen], r.exc)
                 ELSE [st EXCEPT !.calls = @ + 1, !.gen = gen, !.pc = "commit",
                                 !.story = r.story]
    /\ UNCHANGED <<llm, enh, sg, rp, svc, race, anth>>

\* await db.commit() and db.refresh (lines 513-514): the story is stored and
\* returned, or the failure is raised again.
ST_Commit ==
    /\ st.pc = "commit"
    /\ \E ok \in BOOLEAN :
        st' = IF ok
              THEN [st EXCEPT !.pc = "done", !.outcome = "success",
                              !.http = http_status("none"),
                              !.stories = Append(@, st.story)]
              ELSE STRaised([st EXCEPT !.story = NoStory], "SQLAlchemyError")
    /\ UNCHANGED <<llm, enh, sg, rp, svc, race, anth>>

\* The response is sent.
ST_Done ==
    /\ st.pc = "done"
    /\ st' = STIdle(st.stories)
    /\ UNCHANGED <<llm, enh, sg, rp, svc, race, anth>>

InitStory ==
    /\ llm = LLMIdle
    /\ enh = 0
    /\ sg = 0
    /\ st = STIdle(<<>>)
    /\ rp = 0
    /\ svc = 0
    /\ race = 0
    /\ anth = 0

NextStory ==
    \/ GenerateStory
    \/ ST_Build
    \/ ST_Commit
    \/ ST_Done

SpecStory == InitStory /\ [][NextStory]_vars

(***************************************************************************)
(* Claims on generate_story                                                *)
(***************************************************************************)
\* generate_story ran for an existing child with a tracked word: it got as
\* far as the provider call.
StoryCallMade == st.pc \in {"commit", "done"} /\ st.calls > 0

SentencesReturned == sg.pc = "done" /\ sg.outcome = "returned"

\* The save block ran: save_to_db with a session (line 251).
SaveRequested == sg.save_to_db /\ sg.db

\* C11: every result generate_sentences returns holds at least one
\* sentence, and every sentence of it has a non-empty text.
C11_AtLeastOneSentence ==
    SentencesReturned =>
        /\ Len(sg.sentences) >= 1
        /\ \A i \in 1..Len(sg.sentences) : ~Falsy(sg.sentences[i].sentence)

\* C18: when the write of the save block failed, what generate_sentences
\* hands to its caller tells so: the outcome is not the plain return of the
\* sentences that a successful write ends in.
C18_SaveFailureReported ==
    (sg.pc = "done" /\ SaveRequested /\ sg.saveFailed) =>
        sg.outcome \notin {"returned", "none"}

\* C19: after generate_sentences with save_to_db has returned, the stored
\* rows are exactly the returned sentences when the write succeeded and
\* exactly the rows stored before when it failed; rows stored before are
\* never all gone with nothing in their place.
C19_ReplaceAll ==
    (SentencesReturned /\ SaveRequested) =>
        /\ sg.saveFailed => sg.stored = sg.pre
        /\ ~sg.saveFailed => sg.stored = sg.sentences
        /\ sg.pre # <<>> => sg.stored # <<>>

(***************************************************************************)
(* Claims on the story record                                              *)
(***************************************************************************)
\* A story record has been built: it is in the session or stored.
StoryBuilt == st.pc = "commit" \/ (st.pc = "done" /\ st.outcome = "success")

\* The words of the request, as the keys of the usage map (line 442).
InputWords == {st.words[i] : i \in 1..Len(st.words)}

\* The keys of the word_usage the model returned.
ModelUsage == DOMAIN _parse_story_json(st.gen.value).data.word_usage

Docs ==
    {<<"{", "T_ok", "}">>,
     <<"{", "T_short", "}">>,
     <<"{", "T_cut", "}">>,
     <<"{", "E_dog", "}">>,
     <<"{", "S_two", "}">>,
     <<"{", "}">>,
     <<"[", "T_ok", "]">>,
     <<"[", "{", "E_dog", "}", "]">>,
     <<"{", "Q_open", "FENCE", "s", "FENCE", "Q_close", "}">>}

DamageKinds == {"none", "comma", "cut"}

WrapKinds == {"none", "fence", "fence_json"}

\* What may follow the document: nothing, a paragraph, a paragraph that
\* has a closing brace in it.
Tails == {<<>>, <<"\n", "\n", "p">>, <<"\n", "\n", "p", "}", "p">>}

IsObjectWithMembers(doc) == Len(doc) >= 3 /\ doc[1] = "{" /\ doc[Len(doc)] = "}"

\* A trailing comma before the closing brace, or the closing brace missing.
Damaged(doc, kind) ==
    IF kind = "comma" /\ IsObjectWithMembers(doc)
    THEN SubSeq(doc, 1, Len(doc) - 1) \o <<",", "\n", "}">>
    ELSE IF kind = "cut" /\ IsObjectWithMembers(doc)
    THEN SubSeq(doc, 1, Len(doc) - 1)
    ELSE doc

Wrapped(t, kind) ==
    IF kind = "fence_json" THEN <<"FENCE", "json", "\n">> \o t \o <<"\n", "FENCE">>
    ELSE IF kind = "fence" THEN <<"FENCE", "\n">> \o t \o <<"\n", "FENCE">>
    ELSE t

ResponseText(doc, damage, wrap, tail) == Wrapped(Damaged(doc, damage), wrap) \o tail

NoDocument == [ok |-> FALSE, top |-> "none", body |-> "none"]

\* Lines 153-183 of enhance_word: the document json.loads yields.
enhance_document(response) == json_loads(enhance_extract(response))

\* Lines 226-235 of generate_sentences: the document json.loads yields.
sentence_document(response) == json_loads(sentence_clean(response))

RPInput(doc, damage, wrap, tail) ==
    [doc |-> doc, damage |-> damage, wrap |-> wrap, tail |-> tail,
     text |-> ResponseText(doc, damage, wrap, tail), ran |-> {},
     story |-> StoryParseFailed("unset"),
     enhance_doc |-> NoDocument, enhance |-> ParseFailed("unset"),
     sentence_doc |-> NoDocument, sentences |-> SentParseFailed("unset")]

\* _parse_story_json(ai_response).
ParseStoryJson ==
    /\ "story" \notin rp.ran
    /\ rp' = [rp EXCEPT !.ran = @ \cup {"story"},
                        !.story = _parse_story_json(rp.text)]
    /\ UNCHANGED <<llm, enh, sg, st, svc, race, anth>>

\* The extraction and parse of enhance_word on the response.
EnhanceRecover ==
    /\ "enhance" \notin rp.ran
    /\ rp' = [rp EXCEPT !.ran = @ \cup {"enhance"},
                        !.enhance_doc = enhance_document(rp.text),
                        !.enhance = enhance_parse(rp.text)]
    /\ UNCHANGED <<llm, enh, sg, st, svc, race, anth>>

\* The extraction and parse of generate_sentences on the response.
SentencesRecover ==
    /\ "sentences" \notin rp.ran
    /\ rp' = [rp EXCEPT !.ran = @ \cup {"sentences"},
                        !.sentence_doc = sentence_document(rp.text),
                        !.sentences = sentences_parse(rp.text)]
    /\ UNCHANGED <<llm, enh, sg, st, svc, race, anth>>

InitRecovery ==
    /\ llm = LLMIdle
    /\ enh = 0
    /\ sg = 0
    /\ st = 0
    /\ \E doc \in Docs, damage \in DamageKinds, wrap \in WrapKinds, tail \in Tails :
        rp = RPInput(doc, damage, wrap, tail)
    /\ svc = 0
    /\ race = 0
    /\ anth = 0

NextRecovery ==
    \/ ParseStoryJson
    \/ EnhanceRecover
    \/ SentencesRecover

SpecRecovery == InitRecovery /\ [][NextRecovery]_vars

(***************************************************************************)
(* Claims on the recovery steps                                            *)
(***************************************************************************)
\* The text is the document as it is.
PlainDocument == rp.damage = "none" /\ rp.wrap = "none" /\ rp.tail = <<>>

\* The text is the document inside a fenced block and nothing else.
FencedDocument == rp.damage = "none" /\ rp.wrap # "none" /\ rp.tail = <<>>

\* C12: a text that is a valid JSON document as it is comes back from
\* _parse_story_json and from the extraction of enhance_word as exactly the
\* document json.loads yields for it.
C12_DirectParseFirst ==
    PlainDocument =>
        /\ "story" \in rp.ran => rp.story = story_loaded(json_loads(rp.doc))
        /\ "enhance" \in rp.ran => rp.enhance_doc = json_loads(rp.doc)

\* C13: a well-formed JSON document inside a fenced block, with the json
\* tag or without, comes back from each of the three recovery steps as the
\* document json.loads yields for the document alone.
C13_FenceIdempotent ==
    FencedDocument =>
        /\ "story" \in rp.ran => rp.story = story_loaded(json_loads(rp.doc))
        /\ "enhance" \in rp.ran => rp.enhance_doc = json_loads(rp.doc)
        /\ "sentences" \in rp.ran => rp.sentence_doc = json_loads(rp.doc)

\* C14: an object with one trailing comma before its closing brace, with or
\* without a paragraph after it, comes back from _parse_story_json as the
\* object without the comma.
C14_TrailingCommaRecovered ==
    (rp.damage = "comma" /\ rp.wrap = "none" /\ IsObjectWithMembers(rp.doc)
     /\ "story" \in rp.ran) =>
        rp.story = story_loaded(json_loads(rp.doc))

\* The text on which the last resort of _parse_story_json works, and
\* whether the parse gets that far (both json.loads calls fail).
LastResortText == story_strip_fence(rp.text)

LastResortReached ==
    /\ "story" \in rp.ran
    /\ ~json_loads(LastResortText).ok
    /\ ~json_loads(story_fixed(LastResortText)).ok

TitleFound == RegexMatch(LastResortText, "title") # 0

ContentFound == RegexMatch(LastResortText, "content") # 0

\* C15 as stated: the last resort yields a document whenever the title or
\* the content is found, and fails only when neither is.
C15_AnyFieldSuffices ==
    LastResortReached =>
        /\ (TitleFound \/ ContentFound) => rp.story.ok
        /\ (~TitleFound /\ ~ContentFound) => ~rp.story.ok

\* C15 amended: the last resort yields a document only when both the title
\* and the content are found, built from the two with title_english "Story"
\* and the usage notes it can read; with either missing it fails with
\* ValueError.
C15_BothFieldsRequired ==
    LastResortReached =>
        /\ rp.story.ok <=> (TitleFound /\ ContentFound)
        /\ rp.story.ok =>
              /\ rp.story.data.title = StoryBody(LastResortText[RegexMatch(LastResortText, "title")]).title
              /\ rp.story.data.content = StoryBody(LastResortText[RegexMatch(LastResortText, "content")]).content
              /\ rp.story.data.title_english = Str(<<"Story">>)
        /\ ~rp.story.ok => rp.story.exc = "ValueError"

C15_Witness ==
    /\ LastResortReached
    /\ TitleFound /\ ~ContentFound
    /\ ~rp.story.ok /\ rp.story.exc = "ValueError"

(***************************************************************************)
(* Construction of the services: LLMService, get_llm_service, the          *)
(* orchestrators' constructors and their module-level instances.           *)
(* An LLMService instance is a position of svc.made; 0 is None.            *)
(***************************************************************************)
MaxStoryServices == 2

MaxServiceCalls == 4

Providers == {"openai", "anthropic", "ollama"}

\* LLMService.__init__: a provider other than Ollama needs an API key.
CanConstruct(p) == p = "ollama" \/ p \in svc.keys

Orchestrator(kind, p, client) == [kind |-> kind, provider |-> p, llm |-> client]

NoOrchestrator == Orchestrator("none", "none", 0)

\* The provider StoryGeneratorService() picks without an argument.
story_default_provider ==
    IF svc.setting # "none" THEN svc.setting
    ELSE IF "anthropic" \in svc.keys THEN "anthropic"
    ELSE IF "openai" \in svc.keys THEN "openai"
    ELSE "ollama"

\* get_llm_service(provider) on the state s: the slot of the provider is
\* filled on first use.
llm_slot_after(p) ==
    IF svc.slot[p] = 0 /\ CanConstruct(p)
    THEN [svc.slot EXCEPT ![p] = Len(svc.made) + 1]
    ELSE svc.slot

llm_made_after(p) ==
    IF svc.slot[p] = 0 /\ CanConstruct(p) THEN Append(svc.made, p) ELSE svc.made

llm_raises(p) == svc.slot[p] = 0 /\ ~CanConstruct(p)

GetLLMService(p) ==
    /\ svc.calls < MaxServiceCalls
    /\ svc' = [svc EXCEPT !.slot = llm_slot_after(p),
                          !.made = llm_made_after(p),
                          !.calls = @ + 1,
                          !.last = IF llm_raises(p) THEN "ValueError" ELSE "returned"]
    /\ UNCHANGED <<llm, enh, sg, st, rp, race, anth>>

\* get_sentence_generator(provider): SentenceGenerator(provider) on first
\* use, the stored one afterwards whatever the provider.
GetSentenceGenerator(p) ==
    /\ svc.calls < MaxServiceCalls
    /\ svc' = IF svc.sentence # NoOrchestrator
              THEN [svc EXCEPT !.calls = @ + 1, !.last = "returned",
                               !.asked = p, !.got = svc.sentence]
              ELSE [svc EXCEPT
                      !.slot = llm_slot_after(p),
                      !.made = llm_made_after(p),
                      !.sentence = IF llm_raises(p) THEN NoOrchestrator
                                   ELSE Orchestrator("sentence", p, llm_slot_after(p)[p]),
                      !.asked = p,
                      !.got = IF llm_raises(p) THEN NoOrchestrator
                              ELSE Orchestrator("sentence", p, llm_slot_after(p)[p]),
                      !.calls = @ + 1,
                      !.last = IF llm_raises(p) THEN "ValueError" ELSE "returned"]
    /\ UNCHANGED <<llm, enh, sg, st, rp, race, anth>>

\* get_word_enhancement_service(provider).
GetWordEnhancementService(p) ==
    /\ svc.calls < MaxServiceCalls
    /\ svc' = IF svc.enhancer # NoOrchestrator
              THEN [svc EXCEPT !.calls = @ + 1, !.last = "returned",
                               !.asked = p, !.got = svc.enhancer]
              ELSE [svc EXCEPT
                      !.slot = llm_slot_after(p),
                      !.made = llm_made_after(p),
                      !.enhancer = IF llm_raises(p) THEN NoOrchestrator
                                   ELSE Orchestrator("enhancer", p, llm_slot_after(p)[p]),
                      !.asked = p,
                      !.got = IF llm_raises(p) THEN NoOrchestrator
                              ELSE Orchestrator("enhancer", p, llm_slot_after(p)[p]),
                      !.calls = @ + 1,
                      !.last = IF llm_raises(p) THEN "ValueError" ELSE "returned"]
    /\ UNCHANGED <<llm, enh, sg, st, rp, race, anth>>

\* StoryGeneratorService.__init__ with the provider it ends up with:
\* LLMService(provider=self.provider), None when that raises.
story_service(p) ==
    [svc EXCEPT
        !.made = IF CanConstruct(p) THEN Append(@, p) ELSE @,
        !.stories = Append(@, Orchestrator("story", p,
                               IF CanConstruct(p) THEN Len(svc.made) + 1 ELSE 0)),
        !.calls = @ + 1,
        !.last = "returned"]

\* Import of app.services.story_generator: story_generator =
\* StoryGeneratorService().
ImportStoryGenerator ==
    /\ svc.calls < MaxServiceCalls
    /\ ~svc.imported
    /\ svc' = [story_service(story_default_provider) EXCEPT !.imported = TRUE]
    /\ UNCHANGED <<llm, enh, sg, st, rp, race, anth>>

\* StoryGeneratorService(provider=p) by a caller; the module is imported by
\* then.
StoryGeneratorService(p) ==
    /\ svc.calls < MaxServiceCalls
    /\ svc.imported
    /\ Len(svc.stories) < MaxStoryServices
    /\ svc' = story_service(p)
    /\ UNCHANGED <<llm, enh, sg, st, rp, race, anth>>

InitServices ==
    /\ llm = LLMIdle
    /\ enh = 0
    /\ sg = 0
    /\ st = 0
    /\ rp = 0
    /\ \E keys \in SUBSET {"openai", "anthropic"}, setting \in Providers \cup {"none"} :
        svc = [slot |-> [p \in Providers |-> 0], made |-> <<>>,
               sentence |-> NoOrchestrator, enhancer |-> NoOrchestrator,
               stories |-> <<>>, imported |-> FALSE,
               keys |-> keys, setting |-> setting, calls |-> 0, last |-> "none",
               asked |-> "none", got |-> NoOrchestrator]
    /\ race = 0
    /\ anth = 0

NextServices ==
    \/ \E p \in Providers : GetLLMService(p)
    \/ \E p \in Providers : GetSentenceGenerator(p)
    \/ \E p \in Providers : GetWordEnhancementService(p)
    \/ ImportStoryGenerator
    \/ \E p \in Providers : StoryGeneratorService(p)

SpecServices == InitServices /\ [][NextServices]_vars

(***************************************************************************)
(* Claim on the LLM client instances                                       *)
(***************************************************************************)
InstancesOf(p) == {i \in 1..Len(svc.made) : svc.made[i] = p}

Orchestrators ==
    ({svc.sentence, svc.enhancer} \ {NoOrchestrator})
        \cup {svc.stories[i] : i \in 1..Len(svc.stories)}

\* C20: at most one LLMService instance is ever constructed per provider,
\* and every orchestrator of that provider holds that instance.
C20_OneInstancePerProvider ==
    \A p \in Providers :
        /\ Cardinality(InstancesOf(p)) <= 1
        /\ \A o \in Orchestrators : o.provider = p => o.llm \in InstancesOf(p)

(***************************************************************************)
(* Claims comparing the recovery steps of the three orchestrators          *)
(***************************************************************************)
\* The story parser got the document back from a text that is not the
\* document as it is: by the comma repair, the added closing brace or the
\* cut to the outermost braces.
StoryRepaired ==
    /\ "story" \in rp.ran
    /\ rp.damage # "none" \/ rp.tail # <<>>
    /\ rp.story.ok
    /\ rp.story = story_loaded(json_loads(rp.doc))

\* C21: a response that _parse_story_json recovers by syntax repair or
\* boundary extraction is recovered into the same document by the
\* extraction of generate_sentences and by the extraction of enhance_word.
C21_SameRecoveryStrategies ==
    (StoryRepaired /\ "enhance" \in rp.ran /\ "sentences" \in rp.ran) =>
        /\ rp.sentence_doc = json_loads(rp.doc)
        /\ rp.enhance_doc = json_loads(rp.doc)

(***************************************************************************)
(* Claims on the calls enhance_word makes                                  *)
(***************************************************************************)
\* The provider's answer to the first attempt is a well-formed document
\* with the seven required fields.
FirstAnswerComplete ==
    /\ enh.firstAnswer.t = "str"
    /\ json_loads(enh.firstAnswer.v).ok
    /\ enhance_loaded(json_loads(enh.firstAnswer.v)).ok

\* C22: when the provider answers the first attempt with a well-formed
\* document holding the seven required fields, enhance_word makes exactly
\* one call of generate, the call reaches the transport, and the content
\* returned is the document's, not the placeholder.
C22_FallbackOnlyAfterRealFailure ==
    (EnhanceWordEnded /\ FirstAnswerComplete) =>
        /\ enh.calls = 1
        /\ enh.transport >= 1
        /\ enh.source = "model"
        /\ enh.result = enhance_loaded(json_loads(enh.firstAnswer.v)).content

(***************************************************************************)
(* Claims on schema failures in generate_sentences                         *)
(***************************************************************************)
\* The model's text parses as JSON and the document does not fit the
\* sentence schema.
SchemaMismatch ==
    /\ sg.gen.kind = "return"
    /\ json_loads(sentence_clean(sg.gen.value)).ok
    /\ ~sentences_parse(sg.gen.value).ok

\* C23: output that parses as JSON and does not match the sentence schema
\* ends in the placeholder result and never in an exception to the caller.
C23_SchemaMismatchGivesPlaceholder ==
    (sg.pc \in {"delete", "commit", "done"} /\ sg.calls = 1 /\ SchemaMismatch) =>
        /\ sg.outcome # "raised"
        /\ sg.source = "fallback"
        /\ sg.sentences = <<fallback_sentence(sg.word)>>

(***************************************************************************)
(* Overlapping requests on one word: POST /{word_id}/enhance handlers,     *)
(* each with its own session, and PATCH /{word_id}.  A handler gives way   *)
(* at every await; race.db is the committed row.                           *)
(***************************************************************************)
MaxRequests == 2

MaxPatches == 1

Requests == 1..MaxRequests

RaceRows ==
    {Word(Str(<<"Cat">>), wc, Null, de, Null, Str(<<>>), Null, Null) :
        wc \in {Null, Str(<<"zh:cat">>)},
        de \in {Str(<<"A", "word", "learned", "from", "camera">>),
                Str(<<"A", "small", "furry", "animal">>)}}

\* A handler that has not loaded the word yet.
NoRequest(row) ==
    [pc |-> "idle", word |-> row, loaded |-> row, original_word |-> row.word,
     attempt |-> 0, enhanced |-> NoContent, outcome |-> "none"]

\* db.commit(): the UPDATE carries the columns the session has changed
\* since it loaded the row.
flush(db, loaded, word) ==
    [f \in DOMAIN db |-> IF word[f] # loaded[f] THEN word[f] ELSE db[f]]

\* Lines 838-850: the word is loaded into the handler's session.
RaceLoad(r) ==
    /\ race.req[r].pc = "idle"
    /\ race' = [race EXCEPT !.req[r] =
                    [NoRequest(race.db) EXCEPT !.pc = "gen"]]
    /\ UNCHANGED <<llm, enh, sg, st, rp, svc, anth>>

\* Lines 858-863: one attempt of enhance_word; the handler has the content
\* at a return and after the last failed attempt.
RaceAttempt(r) ==
    /\ race.req[r].pc = "gen"
    /\ \E c \in OrchChat(EnhOutputs), g \in OrchGen(EnhOutputs) :
        LET gen == _generate_ollama(_build_enhancement_prompt, c, g).result
            a == enhance_attempt(race.req[r].attempt, gen)
            q == race.req[r]
        IN race' = [race EXCEPT !.req[r] =
                IF a.step = "return"
                THEN [q EXCEPT !.pc = "commit", !.enhanced = a.content]
                ELSE IF a.step = "escape"
                THEN [q EXCEPT !.pc = "done", !.outcome = "http500"]
                ELSE IF q.attempt + 1 >= DefaultMaxRetries
                THEN [q EXCEPT !.pc = "commit", !.attempt = @ + 1,
                               !.enhanced = _create_fallback_content(q.original_word.v)]
                ELSE [q EXCEPT !.attempt = @ + 1]]
    /\ UNCHANGED <<llm, enh, sg, st, rp, svc, anth>>

\* Lines 865-915: the content is merged into the session's word and
\* committed.
RaceCommit(r) ==
    /\ race.req[r].pc = "commit"
    /\ race' = [race EXCEPT
                  !.db = flush(@, race.req[r].loaded,
                               apply_enhancement(race.req[r].word,
                                                 race.req[r].original_word,
                                                 race.req[r].enhanced)),
                  !.req[r].word = apply_enhancement(race.req[r].word,
                                                    race.req[r].original_word,
                                                    race.req[r].enhanced),
                  !.req[r].pc = "verify"]
    /\ UNCHANGED <<llm, enh, sg, st, rp, svc, anth>>

\* The word after db.refresh (line 916) and the checks of lines 918-930.
verified(row, original_word, original_word_cantonese) ==
    [row EXCEPT
        !.word = IF row.word # original_word THEN original_word ELSE @,
        !.word_cantonese =
            IF ~Falsy(original_word_cantonese)
               /\ row.word_cantonese # original_word_cantonese
            THEN original_word_cantonese ELSE @]

\* Lines 916-938: refresh, final verification with its commits, return.
RaceVerify(r) ==
    /\ race.req[r].pc = "verify"
    /\ race' = [race EXCEPT
                  !.db = verified(@, race.req[r].original_word,
                                  race.req[r].loaded.word_cantonese),
                  !.req[r].word = verified(race.db, race.req[r].original_word,
                                           race.req[r].loaded.word_cantonese),
                  !.req[r].pc = "done",
                  !.req[r].outcome = "ok"]
    /\ UNCHANGED <<llm, enh, sg, st, rp, svc, anth>>

\* PATCH /{word_id} (lines 164-188) setting the word or its Cantonese form.
UpdateWord ==
    /\ race.patches < MaxPatches
    /\ \E field \in {"word", "word_cantonese"} :
        race' = [race EXCEPT
                   !.db = IF field = "word" THEN [@ EXCEPT !.word = Str(<<"Kitty">>)]
                          ELSE [@ EXCEPT !.word_cantonese = Str(<<"zh:kitty">>)],
                   !.patches = @ + 1]
    /\ UNCHANGED <<llm, enh, sg, st, rp, svc, anth>>

InitEnhanceRace ==
    /\ llm = LLMIdle
    /\ enh = 0
    /\ sg = 0
    /\ st = 0
    /\ rp = 0
    /\ svc = 0
    /\ \E row \in RaceRows :
        race = [db |-> row, req |-> [r \in Requests |-> NoRequest(row)], patches |-> 0]
    /\ anth = 0

NextEnhanceRace ==
    \/ \E r \in Requests : RaceLoad(r)
    \/ \E r \in Requests : RaceAttempt(r)
    \/ \E r \in Requests : RaceCommit(r)
    \/ \E r \in Requests : RaceVerify(r)
    \/ UpdateWord

SpecEnhanceRace == InitEnhanceRace /\ [][NextEnhanceRace]_vars

(***************************************************************************)
(* Claim on the Cantonese word under overlapping requests                  *)
(***************************************************************************)
\* The step is one of an enhance handler (not the PATCH).
EnhanceStep == race'.patches = race.patches

\* C24: once word_cantonese is non-empty in storage, no step of an enhance
\* request changes it, whatever the overlap of the requests.
C24_StoredCantoneseStable ==
    [][(EnhanceStep /\ ~Falsy(race.db.word_cantonese)) =>
          race'.db.word_cantonese = race.db.word_cantonese]_vars

(***************************************************************************)
(* Claim on a word that holds placeholder content                          *)
(***************************************************************************)
\* An enhance request that ended in the fallback has committed the
\* placeholder into a word whose Cantonese fields were missing and whose
\* definition was missing or generic.
PlaceholderStored ==
    /\ enh.pc = "done" /\ enh.op \in {"single", "batch"}
    /\ enh.outcome = "ok" /\ enh.source = "fallback"
    /\ ~Falsy(enh.pre.word)
    /\ Falsy(enh.pre.word_cantonese)
    /\ Falsy(enh.pre.definition_cantonese)
    /\ Falsy(enh.pre.example_cantonese)
    /\ IsGeneric(enh.pre.definition)
    /\ enh.db.definition = Str(enh.result.definition_english)

\* C25: after the placeholder has been written to a word, the merge of a
\* later enhancement takes the model's content: it replaces the placeholder
\* definition and fills the Cantonese word, definition and example.
C25_PlaceholderReplaced ==
    PlaceholderStored =>
        \A c \in AnyContents :
            /\ apply_enhancement(enh.db, enh.db.word, c).definition
                  = Str(c.definition_english)
            /\ apply_enhancement(enh.db, enh.db.word, c).word_cantonese
                  = Str(c.word_cantonese)
            /\ apply_enhancement(enh.db, enh.db.word, c).definition_cantonese
                  = Str(c.definition_cantonese)
            /\ apply_enhancement(enh.db, enh.db.word, c).example_cantonese
                  = Str(c.example_cantonese)

(***************************************************************************)
(* Overlapping generate_sentences calls with save_to_db for one word, each *)
(* in its own session on PostgreSQL (READ COMMITTED).  race.stored is the  *)
(* committed content of generated_sentences for the word; a row carries    *)
(* the call that inserted it (0 for a row that was there before).          *)
(***************************************************************************)
SentRow(call, n, item) == [call |-> call, n |-> n, item |-> item]

RowsOf(call, sentences) ==
    {SentRow(call, i, sentences[i]) : i \in 1..Len(sentences)}

RaceWord ==
    Word(Str(<<"Cat">>), Str(<<"zh:cat">>), Null,
         Str(<<"A", "small", "furry", "animal">>), Null,
         Str(<<"I", "saw", "a", "cat">>), Null, Null)

NoCall ==
    [pc |-> "idle", sentences |-> <<>>, snapshot |-> {}, deleted |-> {},
     outcome |-> "none", saved |-> FALSE]

\* generate_sentences(word, db=db, save_to_db=True) is called.
SR_Call(r) ==
    /\ race.call[r].pc = "idle"
    /\ race' = [race EXCEPT !.call[r].pc = "gen"]
    /\ UNCHANGED <<llm, enh, sg, st, rp, svc, anth>>

\* Lines 217-248: generate() is awaited and its outcome parsed.
SR_Parse(r) ==
    /\ race.call[r].pc = "gen"
    /\ \E c \in OrchChat(SentOutputs), g \in OrchGen(SentOutputs) :
        LET res == generate_sentences_parse(
                       _generate_ollama("LLMMessage", c, g).result, RaceWord)
        IN race' = [race EXCEPT !.call[r] =
                IF res.outcome = "raised"
                THEN [@ EXCEPT !.pc = "done", !.outcome = "raised"]
                ELSE [@ EXCEPT !.pc = "delete", !.sentences = res.sentences]]
    /\ UNCHANGED <<llm, enh, sg, st, rp, svc, anth>>

\* The DELETE of lines 254-258 starts: the statement sees the rows
\* committed by now.
SR_DeleteStart(r) ==
    /\ race.call[r].pc = "delete"
    /\ race' = [race EXCEPT !.call[r].pc = "deleting",
                            !.call[r].snapshot = race.stored]
    /\ UNCHANGED <<llm, enh, sg, st, rp, svc, anth>>

\* A row of the statement's snapshot is held by another open transaction
\* that has deleted it: the statement waits for that transaction.
RowsLocked(r) ==
    \E o \in Requests : o # r /\ race.call[o].pc = "commit"
                        /\ race.call[o].deleted \cap race.call[r].snapshot # {}

\* The DELETE ends: the rows of its snapshot that still exist are deleted
\* in the transaction; the db.add loop follows (lines 260-271).  A failing
\* statement goes to the handler of lines 274-278.
SR_DeleteEnd(r) ==
    /\ race.call[r].pc = "deleting"
    /\ ~RowsLocked(r)
    /\ \E ok \in BOOLEAN :
        race' = [race EXCEPT !.call[r] =
                IF ok
                THEN [@ EXCEPT !.pc = "commit",
                               !.deleted = race.call[r].snapshot \cap race.stored]
                ELSE [@ EXCEPT !.pc = "done", !.outcome = "returned"]]
    /\ UNCHANGED <<llm, enh, sg, st, rp, svc, anth>>

\* await db.commit() (line 273), or the rollback of lines 274-278; the
\* result is returned either way.
SR_Commit(r) ==
    /\ race.call[r].pc = "commit"
    /\ \E ok \in BOOLEAN :
        race' = IF ok /\ \A i \in 1..Len(race.call[r].sentences) :
                             NotNullOk(race.call[r].sentences[i])
                THEN [race EXCEPT
                        !.stored = (@ \ race.call[r].deleted)
                                      \cup RowsOf(r, race.call[r].sentences),
                        !.call[r].pc = "done", !.call[r].saved = TRUE,
                        !.call[r].deleted = {},
                        !.call[r].outcome = "returned"]
                ELSE [race EXCEPT
                        !.call[r].pc = "done", !.call[r].deleted = {},
                        !.call[r].outcome = "returned"]
    /\ UNCHANGED <<llm, enh, sg, st, rp, svc, anth>>

InitSentenceRace ==
    /\ llm = LLMIdle
    /\ enh = 0
    /\ sg = 0
    /\ st = 0
    /\ rp = 0
    /\ svc = 0
    /\ \E stored \in {{}, {SentRow(0, 1, OldRow)}} :
        race = [stored |-> stored, call |-> [r \in Requests |-> NoCall]]
    /\ anth = 0

NextSentenceRace ==
    \/ \E r \in Requests : SR_Call(r)
    \/ \E r \in Requests : SR_Parse(r)
    \/ \E r \in Requests : SR_DeleteStart(r)
    \/ \E r \in Requests : SR_DeleteEnd(r)
    \/ \E r \in Requests : SR_Commit(r)

SpecSentenceRace == InitSentenceRace /\ [][NextSentenceRace]_vars

(***************************************************************************)
(* Claim on the stored sentences under overlapping calls                   *)
(***************************************************************************)
BothSaved == \A r \in Requests : race.call[r].pc = "done" /\ race.call[r].saved

\* C26: after two overlapping calls that both saved have finished, the
\* stored sentences of the word are the items of one of the calls, never
\* the items of both.
C26_OneCallsItemsStored ==
    BothSaved => \E r \in Requests : race.stored = RowsOf(r, race.call[r].sentences)

(***************************************************************************)
(* LLMService._generate_anthropic (llm_service.py lines 121-161)           *)
(***************************************************************************)
MaxMessages == 3

LLMMessage(role, content) == [role |-> role, content |-> content]

MessageLists ==
    UNION {[1..n -> {LLMMessage(r, c) : r \in {"system", "user"},
                                        c \in {<<"a">>, <<"b">>}}] :
           n \in 1..MaxMessages}

\* Lines 137-142: the loop keeps the content of the system message it saw
\* last.
anthropic_system(messages) ==
    IF \E i \in 1..Len(messages) : messages[i].role = "system"
    THEN Str(messages[CHOOSE i \in 1..Len(messages) :
                         /\ messages[i].role = "system"
                         /\ \A j \in (i + 1)..Len(messages) :
                               messages[j].role # "system"].content)
    ELSE Null

\* Lines 138, 143-144: the other messages, in order.
NotSystem(msg) == msg.role # "system"

anthropic_user_messages(messages) == SelectSeq(messages, NotSystem)

\* Lines 146-155: the payload; "system" is set only for a non-empty value.
anthropic_payload(messages) ==
    [messages |-> anthropic_user_messages(messages),
     system |-> IF Falsy(anthropic_system(messages)) THEN Absent
                ELSE anthropic_system(messages)]

AnthropicReplies == {"HTTPStatusError", "no_content", "text"}

\* Lines 157-161 on the provider's reply.
anthropic_result(reply) ==
    IF reply = "HTTPStatusError" THEN Raise("HTTPStatusError")
    ELSE IF reply = "no_content" THEN Raise("KeyError")
    ELSE Return(<<"c">>)

\* _generate_anthropic builds the payload and posts it.
GenerateAnthropic ==
    /\ anth.pc = "idle"
    /\ anth' = [anth EXCEPT !.pc = "sent",
                            !.payload = anthropic_payload(anth.messages)]
    /\ UNCHANGED <<llm, enh, sg, st, rp, svc, race>>

\* The provider answers and the call ends.
AnthropicReply ==
    /\ anth.pc = "sent"
    /\ \E reply \in AnthropicReplies :
        anth' = [anth EXCEPT !.pc = "done", !.result = anthropic_result(reply)]
    /\ UNCHANGED <<llm, enh, sg, st, rp, svc, race>>

InitAnthropic ==
    /\ llm = LLMIdle
    /\ enh = 0
    /\ sg = 0
    /\ st = 0
    /\ rp = 0
    /\ svc = 0
    /\ race = 0
    /\ \E messages \in MessageLists :
        anth = [pc |-> "idle", messages |-> messages,
                payload |-> [messages |-> <<>>, system |-> Absent],
                result |-> ReturnNone]

NextAnthropic ==
    \/ GenerateAnthropic
    \/ AnthropicReply

SpecAnthropic == InitAnthropic /\ [][NextAnthropic]_vars

(***************************************************************************)
(* Claim on the system messages sent to Anthropic                          *)
(***************************************************************************)
\* C27: the content of every system message of the input is part of the
\* system instruction of the payload; none is dropped.
C27_AllSystemMessagesSent ==
    anth.pc # "idle" =>
        \A i \in 1..Len(anth.messages) :
            anth.messages[i].role = "system" =>
                /\ anth.payload.system.t = "str"
                /\ Contains(anth.payload.system.v, anth.messages[i].content)

(***************************************************************************)
(* Claim on the service an accessor returns                                *)
(***************************************************************************)
\* C28: the service returned by get_sentence_generator(p) or
\* get_word_enhancement_service(p) holds the client of provider p, also
\* after an earlier call for another provider.
C28_AccessorHonoursProvider ==
    svc.got # NoOrchestrator =>
        /\ svc.got.provider = svc.asked
        /\ svc.got.llm \in InstancesOf(svc.asked)

RawContent == _parse_story_json(st.gen.value).data.content.v

CleanedTooShort ==
    /\ CharLen(_clean_story_content(RawContent)) < CleanedMin
    /\ CharLen(RawContent) > CleanedMin

====
